---- MODULE Spec2Model ----
(***************************************************************************)
(* Model of the data-fetch-cache pipeline of the market-breadth analyzer:  *)
(* the cache helpers, fetchWithFallback, fetchVNIndexData and              *)
(* fetchBreadthData of src/api.ts and parseVNIndexData of src/ai.ts.       *)
(*                                                                         *)
(* Time and every timestamp-like number are counted in units of 10 s       *)
(* (MsPerUnit milliseconds), because TLC integers are 32 bits wide and a   *)
(* millisecond epoch does not fit.  The operations on them (comparison,    *)
(* subtraction, multiplication by 1000) are linear, so the scale does not  *)
(* change any branch the code takes.                                       *)
(***************************************************************************)
EXTENDS Integers, Sequences, FiniteSets, TLC

MsPerUnit == 10 * 1000

\* ---- program constants (src/api.ts:5-11, 155; src/ai.ts:719) ----
DEFAULT_BREADTH_URL == "https://api.alphastock.vn/api/stock/avg"
DEFAULT_VNINDEX_URL == "https://api.alphastock.vn/charts_json/vnindex_5y.json"
CACHE_PREFIX == "MBA_CACHE_V5_"
VNINDEX_TTL == (4 * 60 * 60 * 1000) \div MsPerUnit
BREADTH_MIN_FRESH == (5 * 60 * 1000) \div MsPerUnit
\* 10000000000 ms, the seconds/milliseconds threshold
MS_THRESHOLD == (10000000 \div MsPerUnit) * 1000
\* cachedData.length < 50 forces a history refetch
HISTORY_MIN_LEN == 50
NO_CACHE_AGE == 999999999

\* ---- bounds of the model ----
\* number of call slots (calls that can be in flight or finished at once)
NumCalls == 1
\* number of times the clock advances
MaxTicks == 1
\* number of calls started in one behaviour
MaxStarts == 2
\* number of fetchData calls in one behaviour
MaxCycles == 2
\* longest array given to parseVNIndexData
MaxRows == 2
\* number of fetchBreadthData calls that run at the same time
NumOverlapping == 2

\* ---- JavaScript values ----
\* A primitive: number (integer), string, null, undefined, NaN, boolean,
\* or "object" for a value that is not a primitive.
Sc(k, n, s) == [k |-> k, n |-> n, s |-> s]
Num(n) == Sc("num", n, "")
Str(x) == Sc("str", 0, x)
Null == Sc("null", 0, "")
Undef == Sc("undefined", 0, "")
NaN == Sc("nan", 0, "")
NonPrimitive == Sc("object", 0, "")

\* A JSON value: a primitive, an array of JSON values, or an object.
JS(s) == [k |-> "scalar", sc |-> s, items |-> <<>>, fields |-> <<>>]
JA(a) == [k |-> "array", sc |-> Null, items |-> a, fields |-> <<>>]
JO(f) == [k |-> "object", sc |-> Null, items |-> <<>>, fields |-> f]
JUndef == JS(Undef)

IsArray(j) == j.k = "array"

\* the primitive a value reads as (an array or object is a non-primitive)
Prim(j) == IF j.k = "scalar" THEN j.sc ELSE NonPrimitive

\* strings that Number() reads as a number; every other string gives NaN
NumericStr == ("" :> 0) @@ ("7" :> 7) @@ ("100" :> 100)
\* strings that new Date() reads as an instant; every other string is invalid
DateStr == ("2024-01-01" :> 170406720) @@ ("2024-01-02" :> 170415360)

\* truthiness of a primitive
TruthyPrim(s) ==
  CASE s.k = "num" -> s.n # 0
    [] s.k = "str" -> s.s # ""
    [] s.k = "object" -> TRUE
    [] OTHER -> FALSE
Truthy(j) == IF j.k = "scalar" THEN TruthyPrim(j.sc) ELSE TRUE

\* Number(x) of a primitive
ToNumber(s) ==
  CASE s.k = "num" -> s
    [] s.k = "null" -> Num(0)
    [] s.k = "str" -> IF s.s \in DOMAIN NumericStr THEN Num(NumericStr[s.s]) ELSE NaN
    [] OTHER -> NaN

\* Number(x) of a JSON value: [] is 0, [x] is Number(String(x)), other
\* arrays and objects are NaN
ToNumberJ(j) ==
  CASE j.k = "scalar" -> ToNumber(j.sc)
    [] j.k = "array" ->
         IF Len(j.items) = 0 THEN Num(0)
         ELSE IF Len(j.items) = 1 /\ j.items[1].k = "scalar"
              THEN (IF j.items[1].sc.k \in {"null", "undefined"} THEN Num(0)
                    ELSE ToNumber(j.items[1].sc))
              ELSE NaN
    [] OTHER -> NaN

\* new Date(x).getTime()
DateGetTime(s) ==
  CASE s.k = "str" -> IF s.s \in DOMAIN DateStr THEN Num(DateStr[s.s]) ELSE NaN
    [] s.k = "num" -> s
    [] s.k = "null" -> Num(0)
    [] OTHER -> NaN

\* x.key; reading a property of null or undefined throws, so callers test
\* CanRead first
CanRead(j) == ~(j.k = "scalar" /\ j.sc.k \in {"null", "undefined"})
Get(j, key) ==
  IF j.k = "object" /\ key \in DOMAIN j.fields THEN j.fields[key] ELSE JUndef
\* x[i] for a 0-based index i
At(j, i) ==
  IF j.k = "array" /\ i + 1 \in 1..Len(j.items) THEN j.items[i + 1] ELSE JUndef
\* x.length
LengthOf(j) == IF j.k = "array" THEN Len(j.items) ELSE -1

\* a || b || ... : the first truthy operand, else the last one
RECURSIVE OrChain(_)
OrChain(vals) ==
  IF Len(vals) = 1 THEN vals[1]
  ELSE IF Truthy(vals[1]) THEN vals[1] ELSE OrChain(Tail(vals))

\* Body(v) with v evaluated once (TLC evaluates a LET definition anew at
\* each of its uses)
With(v, Body(_)) == CHOOSE r \in {Body(x) : x \in {v}} : TRUE

\* results of code that may throw
Ok(v) == [threw |-> FALSE, val |-> v]
Threw == [threw |-> TRUE, val |-> <<>>]

\* if (typeof timestamp === 'number' && timestamp < 10000000000) timestamp *= 1000
ScaleIfNumber(s) ==
  IF s.k = "num" /\ s.n < MS_THRESHOLD THEN Num(s.n * 1000) ELSE s

\* if (timestamp < 10000000000) timestamp *= 1000, without the typeof test:
\* the comparison and the product coerce with Number()
ScaleCoerced(s) ==
  LET n == ToNumber(s)
  IN IF n.k = "num" /\ n.n < MS_THRESHOLD THEN Num(n.n * 1000) ELSE s

TimeKeys == <<"date", "time", "t", "Date", "Time", "dt">>
CloseKeys == <<"value", "close", "c", "Close", "Price", "price", "v", "adClose", "adjClose">>

\* { timestamp, close }
VNPoint(timestamp, close) == JO([timestamp |-> JS(timestamp), close |-> JS(close)])

\* Scenario 1, one element of an array of arrays
ParseArrayItem(item) ==
  LET timestamp == Prim(At(item, 0))
      close == IF LengthOf(item) >= 5 THEN At(item, 4) ELSE At(item, 1)
  IN VNPoint(ScaleIfNumber(timestamp), ToNumberJ(close))

\* Scenario 2, one element of an array of objects; "none" is the null the
\* map callback returns for a dropped record
ParseObjectItem(item) ==
  LET time == Prim(OrChain([i \in 1..Len(TimeKeys) |-> Get(item, TimeKeys[i])]))
      closeJ == OrChain([i \in 1..Len(CloseKeys) |-> Get(item, CloseKeys[i])])
      timestamp == IF time.k = "str" THEN DateGetTime(time) ELSE time
  IN IF time.k = "undefined" \/ Prim(closeJ).k = "undefined"
     THEN [none |-> TRUE, timestamp |-> Undef, close |-> Undef]
     ELSE [none |-> FALSE, timestamp |-> ScaleIfNumber(timestamp), close |-> ToNumberJ(closeJ)]

RECURSIVE parseVNIndexData(_)
parseVNIndexData(data) ==
  IF ~Truthy(data) THEN Ok(<<>>)
  ELSE IF Truthy(Get(data, "data")) /\ IsArray(Get(data, "data"))
  THEN parseVNIndexData(Get(data, "data"))
  ELSE IF IsArray(data) /\ Len(data.items) > 0 /\ IsArray(data.items[1])
  THEN IF \E i \in 1..Len(data.items) : ~CanRead(data.items[i])
       THEN Threw
       ELSE Ok([i \in 1..Len(data.items) |-> ParseArrayItem(data.items[i])])
  ELSE IF IsArray(data)
  THEN IF \E i \in 1..Len(data.items) : ~CanRead(data.items[i])
       THEN Threw
       ELSE LET mapped == [i \in 1..Len(data.items) |-> ParseObjectItem(data.items[i])]
                kept == SelectSeq(mapped, LAMBDA m : ~m.none)
            IN Ok([i \in 1..Len(kept) |-> VNPoint(kept[i].timestamp, kept[i].close)])
  ELSE IF IsArray(Get(data, "t")) /\ IsArray(Get(data, "c"))
  THEN LET t == Get(data, "t").items
           c == Get(data, "c")
       IN Ok([i \in 1..Len(t) |->
                VNPoint(ScaleCoerced(Prim(t[i])), ToNumberJ(At(c, i - 1)))])
  ELSE Ok(<<>>)

\* ---- breadth payload mapping (src/api.ts:166-173, 205-260) ----
\* 86400000 ms
DAY == (24 * 60 * 60 * 1000) \div MsPerUnit

\* new Date(x) is a valid date
ValidDate(s) == DateGetTime(s).k = "num"

\* new Date(ts).toISOString().split('T')[0] for a valid date: the calendar
\* day of the instant, as the string that names that day
IsoDate(s) ==
  LET day == DateGetTime(s).n \div DAY
  IN IF \E d \in DOMAIN DateStr : DateStr[d] \div DAY = day
     THEN Str(CHOOSE d \in DOMAIN DateStr : DateStr[d] \div DAY = day)
     ELSE Str("day:" \o ToString(day))

\* x > 0 with Number() coercion
GreaterThanZero(s) == LET n == ToNumber(s) IN n.k = "num" /\ n.n > 0

\* parseFloat(x): the number a numeric string starts with; "" and null are NaN
ParseFloat(s) ==
  CASE s.k = "num" -> s
    [] s.k = "str" -> IF s.s # "" /\ s.s \in DOMAIN NumericStr THEN Num(NumericStr[s.s]) ELSE NaN
    [] OTHER -> NaN

\* a ?? b ?? ... : the first operand that is neither null nor undefined
RECURSIVE NullishChain(_)
NullishChain(vals) ==
  IF Len(vals) = 1 THEN vals[1]
  ELSE IF Prim(vals[1]).k \notin {"null", "undefined"} THEN vals[1]
       ELSE NullishChain(Tail(vals))

\* total > 0 ? (c / total) * 100 : 0.  The payloads of the model keep
\* 100 * c divisible by total, so the integer quotient is the exact value.
Calc(c, total) ==
  IF total.k = "num" /\ total.n > 0
  THEN (IF c.k = "num" THEN Num((c.n * 100) \div total.n) ELSE NaN)
  ELSE Num(0)

BreadthPoint(date, timestamp, total, c20, c50, c200) ==
  JO([date |-> JS(date), timestamp |-> JS(timestamp), total |-> JS(total),
      count20 |-> JS(c20), count50 |-> JS(c50), count200 |-> JS(c200),
      ma20 |-> JS(Calc(c20, total)), ma50 |-> JS(Calc(c50, total)),
      ma200 |-> JS(Calc(c200, total))])

\* p.timestamp
TimestampOf(p) == Prim(Get(p, "timestamp"))

\* one element of mapBreadthData's map; throws when the date is invalid
MapBreadthItem(item) ==
  LET rawDate == Prim(OrChain(<<Get(item, "date"), Get(item, "Date"),
                                Get(item, "time"), Get(item, "t")>>))
      ts0 == IF rawDate.k = "str" THEN DateGetTime(rawDate) ELSE rawDate
      timestamp == ScaleIfNumber(ts0)
      total == ToNumberJ(OrChain(<<Get(item, "total"), JS(Num(0))>>))
      c20 == ToNumberJ(NullishChain(<<Get(item, "ma20"), Get(item, "avg_ma20"),
                                      Get(item, "pct_ma20"), JS(Num(0))>>))
      c50 == ToNumberJ(NullishChain(<<Get(item, "ma50"), Get(item, "avg_ma50"),
                                      Get(item, "pct_ma50"), JS(Num(0))>>))
      c200 == ToNumberJ(NullishChain(<<Get(item, "ma200"), Get(item, "avg_ma200"),
                                       Get(item, "pct_ma200"), JS(Num(0))>>))
  IN IF ~CanRead(item) \/ ~ValidDate(timestamp) THEN Threw
     ELSE Ok(BreadthPoint(IsoDate(timestamp), timestamp, total, c20, c50, c200))

mapBreadthData(data) ==
  With([i \in 1..Len(data) |-> MapBreadthItem(data[i])], LAMBDA mapped :
    IF \E i \in 1..Len(data) : mapped[i].threw THEN Threw
    ELSE Ok(SelectSeq([i \in 1..Len(data) |-> mapped[i].val],
                      LAMBDA d : GreaterThanZero(TimestampOf(d)))))

\* the entries of mapComplexBreadthData's Map: one per date, in the order
\* the dates are first met; fields not set yet are undefined
ComplexEntry(date) ==
  [date |-> date, total |-> Num(0), count20 |-> Undef, count50 |-> Undef, count200 |-> Undef]

\* Math.max(a, b) of two numbers or NaN
MathMax(a, b) ==
  IF a.k = "nan" \/ b.k = "nan" THEN NaN ELSE IF a.n >= b.n THEN a ELSE b

\* the callback of mergeSeries applied to one item
MergeSeriesItem(merged, item, countProp) ==
  With(Prim(Get(item, "date")), LAMBDA date :
    With(IF \E i \in 1..Len(merged) : merged[i].date = date
         THEN merged ELSE Append(merged, ComplexEntry(date)), LAMBDA withDate :
      With(CHOOSE i \in 1..Len(withDate) : withDate[i].date = date, LAMBDA idx :
        With(IF Truthy(Get(item, "total"))
             THEN MathMax(withDate[idx].total, ToNumberJ(Get(item, "total")))
             ELSE withDate[idx].total, LAMBDA total :
          [withDate EXCEPT ![idx] =
             [@ EXCEPT !.total = total,
                       ![countProp] = ParseFloat(Prim(Get(item, "value")))]]))))

RECURSIVE MergeSeriesItems(_, _, _)
MergeSeriesItems(merged, items, countProp) ==
  IF items = <<>> THEN merged
  ELSE MergeSeriesItems(MergeSeriesItem(merged, Head(items), countProp), Tail(items), countProp)

\* mergeSeries(key, countProp): nothing when dataObj[key] is not an array
mergeSeries(merged, dataObj, key, countProp) ==
  With(Get(dataObj, key), LAMBDA series :
    IF IsArray(series) THEN MergeSeriesItems(merged, series.items, countProp) ELSE merged)

\* x || 0 for a number, NaN or undefined
OrZero(s) == IF TruthyPrim(s) THEN s ELSE Num(0)

\* the callback of the final map (lines 222-237) applied to one entry
ComplexPoint(item) ==
  With(OrZero(item.total), LAMBDA t :
    With(DateGetTime(item.date), LAMBDA ts :
      JO([date |-> JS(item.date),
          timestamp |-> JS(IF ts.k = "nan" THEN Num(0) ELSE ts),
          total |-> JS(t),
          count20 |-> JS(OrZero(item.count20)),
          count50 |-> JS(OrZero(item.count50)),
          count200 |-> JS(OrZero(item.count200)),
          ma20 |-> JS(Calc(OrZero(item.count20), t)),
          ma50 |-> JS(Calc(OrZero(item.count50), t)),
          ma200 |-> JS(Calc(OrZero(item.count200), t))])))

\* item.date of a null or undefined item throws
UnreadableSeries(dataObj, key) ==
  With(Get(dataObj, key), LAMBDA series :
    IsArray(series) /\ \E i \in 1..Len(series.items) : ~CanRead(series.items[i]))

mapComplexBreadthData(dataObj) ==
  IF UnreadableSeries(dataObj, "ma20") \/ UnreadableSeries(dataObj, "ma50")
     \/ UnreadableSeries(dataObj, "ma200")
  THEN Threw
  ELSE With(mergeSeries(mergeSeries(mergeSeries(<<>>, dataObj, "ma20", "count20"),
                                    dataObj, "ma50", "count50"),
                        dataObj, "ma200", "count200"), LAMBDA merged :
         Ok([i \in 1..Len(merged) |-> ComplexPoint(merged[i])]))

\* 'ma20' in x: throws unless x is an object or an array
InThrows(j) == j.k = "scalar"
HasKey(j, key) == j.k = "object" /\ key \in DOMAIN j.fields

\* line 172
ProcessMapped(raw) ==
  IF ~IsArray(raw) THEN Ok(<<>>)
  ELSE IF Len(raw.items) > 0 /\ InThrows(raw.items[1]) THEN Threw
  ELSE IF Len(raw.items) > 0 /\ HasKey(raw.items[1], "ma20") THEN Ok(raw.items)
  ELSE mapBreadthData(raw.items)

processRaw(data) ==
  IF ~Truthy(data) THEN Ok(<<>>)
  ELSE With(Get(data, "data"), LAMBDA inner :
         IF Truthy(inner) /\ ~IsArray(inner) /\ inner.k = "object"
         THEN With(mapComplexBreadthData(inner), LAMBDA mapped :
                IF mapped.threw THEN Threw ELSE ProcessMapped(JA(mapped.val)))
         ELSE ProcessMapped(IF IsArray(data) THEN data
                            ELSE IF Truthy(inner) THEN inner ELSE JA(<<>>)))

\* ---- cache helpers (src/api.ts:15-50) ----
\* every property name of a parameter object, in the order sort() gives
SortedKeys == <<"breadthUrl", "floor", "max_ad", "max_ma", "min_ad", "min_ma", "url">>

\* JSON.stringify of a primitive inside an object or array: NaN becomes null
JsonPrim(s) == IF s.k = "nan" THEN Null ELSE s

\* JSON.parse(JSON.stringify(x)): NaN becomes null, an undefined array
\* element becomes null, an undefined property is dropped
RECURSIVE JsonRound(_)
JsonRound(j) ==
  CASE j.k = "scalar" -> JS(JsonPrim(j.sc))
    [] j.k = "array" ->
         JA([i \in 1..Len(j.items) |->
               IF Prim(j.items[i]).k = "undefined" THEN JS(Null) ELSE JsonRound(j.items[i])])
    [] OTHER ->
         LET keep == {f \in DOMAIN j.fields : Prim(j.fields[f]).k # "undefined"}
         IN JO([f \in keep |-> JsonRound(j.fields[f])])

\* variant: the pairs are listed in insertion order
StringifyInsertionOrder(params) ==
  LET kept == SelectSeq(params, LAMBDA pair : pair[2].k # "undefined")
  IN [i \in 1..Len(kept) |-> <<kept[i][1], JsonPrim(kept[i][2])>>]

\* a parameter object is the sequence of its <<name, value>> pairs in
\* insertion order; JSON.stringify(params, Object.keys(params).sort()) lists
\* the pairs in sorted key order and leaves out the undefined ones
Stringify(params) ==
  LET has(key) == \E i \in 1..Len(params) : params[i][1] = key
      val(key) == params[CHOOSE i \in 1..Len(params) : params[i][1] = key][2]
      keys == SelectSeq(SortedKeys, LAMBDA key : has(key) /\ val(key).k # "undefined")
  IN [i \in 1..Len(keys) |-> <<keys[i], JsonPrim(val(keys[i]))>>]

getCacheKey(prefix, params) == <<CACHE_PREFIX, prefix, Stringify(params)>>

\* the stored item: absent, or the JSON text of { timestamp, data }
NoItem == [k |-> "none", timestamp |-> 0, data |-> JUndef]
Item(timestamp, data) == [k |-> "entry", timestamp |-> timestamp, data |-> JsonRound(data)]

\* saveToCache's localStorage.setItem; a failed write (quota) is caught and
\* leaves the store as it was
SavedStore(store, clock, key, data, quotaOk) ==
  IF quotaOk THEN [store EXCEPT ![key] = Item(clock, data)] ELSE store

\* variant: the TTL is not applied
loadFromCacheIgnoresTtl(store, clock, key, ttl) ==
  LET item == store[key]
  IN IF item.k = "none" \/ ~Truthy(item.data)
     THEN [hit |-> FALSE, data |-> JUndef, age |-> 0]
     ELSE [hit |-> TRUE, data |-> item.data, age |-> clock - item.timestamp]

\* variant: an entry whose age equals the TTL is rejected
loadFromCacheStrict(store, clock, key, ttl) ==
  LET item == store[key]
      age == clock - item.timestamp
  IN IF item.k = "none" THEN [hit |-> FALSE, data |-> JUndef, age |-> 0]
     ELSE IF ~Truthy(item.data) THEN [hit |-> FALSE, data |-> JUndef, age |-> 0]
     ELSE IF ttl.k # "null" /\ age >= ttl.n THEN [hit |-> FALSE, data |-> JUndef, age |-> 0]
     ELSE [hit |-> TRUE, data |-> item.data, age |-> age]

\* loadFromCache(key, ttl): ttl is Null or a number
NoHit == [hit |-> FALSE, data |-> JUndef, age |-> 0]
loadFromCache(store, clock, key, ttl) ==
  LET item == store[key]
      age == clock - item.timestamp
  IN IF item.k = "none" THEN NoHit
     ELSE IF ~Truthy(item.data) THEN NoHit
     ELSE IF ttl.k # "null" /\ age > ttl.n THEN NoHit
     ELSE [hit |-> TRUE, data |-> item.data, age |-> age]

\* ---- URLs and HTTP ----
\* a URL is its part before '?' and its query pairs; url.includes('?') is
\* "the query is not empty"
Url(base, query) == [base |-> base, query |-> query]
NoUrl == Url("", <<>>)

RECURSIVE QueryString(_)
QueryString(query) ==
  IF query = <<>> THEN ""
  ELSE query[1][1] \o "=" \o query[1][2]
       \o (IF Len(query) > 1 THEN "&" ELSE "") \o QueryString(Tail(query))
UrlString(u) == u.base \o (IF u.query = <<>> THEN "" ELSE "?" \o QueryString(u.query))

DefaultVnIndexUrl == Url(DEFAULT_VNINDEX_URL, <<>>)
SectorUrl == Url("https://api.alphastock.vn/api/rrg/sector", << <<"code", "8300">>, <<"week", "1">> >>)

\* `${url}${url.includes('?') ? '&' : '?'}_=${Date.now()}`
CacheBusted(u, clock) ==
  [url |-> u, sep |-> IF u.query # <<>> THEN "&" ELSE "?", buster |-> clock]

\* an HTTP request: the direct one, or the relay request that wraps the
\* percent-encoded cache-busted URL
Request(via, busted) == [via |-> via, target |-> busted]

\* the state of one fetchWithFallback call
NoError == [from |-> "", kind |-> ""]
NoFetch == [st |-> "none", target |-> CacheBusted(NoUrl, 0), error |-> NoError,
            value |-> JUndef]
\* the call up to its first await: the direct request is out
fetchWithFallback(u, clock) ==
  [NoFetch EXCEPT !.st = "direct", !.target = CacheBusted(u, clock)]

\* what one HTTP attempt comes to: a network error, a non-2xx status, a body
\* that is not JSON, or a parsed body
FailKinds == {"network", "status", "json"}
Failure(kind) == [ok |-> FALSE, kind |-> kind, body |-> JUndef]
Success(body) == [ok |-> TRUE, kind |-> "", body |-> body]

\* the direct attempt ends: resolve, or catch its error (which the code
\* never reads) and go on to the relay
AfterDirect(f, o) ==
  IF o.ok THEN [f EXCEPT !.st = "resolved", !.value = o.body]
  ELSE [f EXCEPT !.st = "proxy"]

\* variant: a failed relay attempt is tried again
AfterProxyRetries(f, o) ==
  IF o.ok THEN [f EXCEPT !.st = "resolved", !.value = o.body] ELSE f

\* variant: the relay's failure is reported with the direct attempt's error
AfterProxyDirectError(f, o) ==
  IF o.ok THEN [f EXCEPT !.st = "resolved", !.value = o.body]
  ELSE [f EXCEPT !.st = "rejected", !.error = [from |-> "direct", kind |-> o.kind]]

\* the relay attempt ends: resolve, or reject with the relay's error
AfterProxy(f, o) ==
  IF o.ok THEN [f EXCEPT !.st = "resolved", !.value = o.body]
  ELSE [f EXCEPT !.st = "rejected", !.error = [from |-> "proxy", kind |-> o.kind]]

Settled(f) == f.st \in {"none", "resolved", "rejected"}

\* ---- the fetchers (src/api.ts:77-203) ----
Resolved(value) == [st |-> "resolved", value |-> value]
Rejected == [st |-> "rejected", value |-> JUndef]
Pending == [st |-> "pending", value |-> JUndef]

\* what a step of a fetcher leaves behind: the promise it returned, the
\* store, the number of saveToCache calls made, the return statement taken
Outcome(result, store, saves, via) ==
  [result |-> result, store |-> store, saves |-> saves, via |-> via]

\* fetchVNIndexData, lines 78-79
VNTargetUrl(url) == IF url.base # "" THEN url ELSE DefaultVnIndexUrl
VNCacheKey(url) == getCacheKey("VNINDEX", << <<"url", Str(UrlString(VNTargetUrl(url)))>> >>)

\* variant: a catch block that rethrows
VNCatchRethrows(store, clock, key) == Outcome(Rejected, store, 0, "catch")

\* variant: a catch block that does not consult the store
VNCatchEmpty(store, clock, key) == Outcome(Resolved(JA(<<>>)), store, 0, "catch")

\* fetchVNIndexData, the catch block (lines 102-108)
VNCatch(store, clock, key) ==
  LET staleCache == loadFromCache(store, clock, key, Null)
  IN Outcome(Resolved(IF staleCache.hit THEN staleCache.data ELSE JA(<<>>)), store, 0, "catch")

\* variant: a failed write is not caught by saveToCache and reaches the
\* catch block of the fetcher
VNResumeWriteThrows(store, clock, key, f, quotaOk) ==
  With(parseVNIndexData(f.value), LAMBDA parsed :
    IF f.st = "rejected" \/ ~Truthy(f.value) \/ parsed.threw
    THEN VNCatch(store, clock, key)
    ELSE IF Len(parsed.val) > 0
         THEN IF quotaOk
              THEN Outcome(Resolved(JA(parsed.val)),
                           SavedStore(store, clock, key, JA(parsed.val), quotaOk), 1, "fetch")
              ELSE Outcome(VNCatch(store, clock, key).result, store, 1, "catch")
         ELSE Outcome(Resolved(JA(parsed.val)), store, 0, "fetch"))

\* variant: the parsed series is saved whatever its length
VNResumeSavesEmpty(store, clock, key, f, quotaOk) ==
  With(parseVNIndexData(f.value), LAMBDA parsed :
    IF f.st = "rejected" \/ ~Truthy(f.value) \/ parsed.threw
    THEN VNCatch(store, clock, key)
    ELSE Outcome(Resolved(JA(parsed.val)),
                 SavedStore(store, clock, key, JA(parsed.val), quotaOk), 1, "fetch"))

\* fetchVNIndexData after fetchWithFallback settled (lines 88-108)
VNResume(store, clock, key, f, quotaOk) ==
  With(parseVNIndexData(f.value), LAMBDA parsed :
    IF f.st = "rejected" \/ ~Truthy(f.value) \/ parsed.threw
    THEN VNCatch(store, clock, key)
    ELSE IF Len(parsed.val) > 0
         THEN Outcome(Resolved(JA(parsed.val)),
                      SavedStore(store, clock, key, JA(parsed.val), quotaOk), 1, "fetch")
         ELSE Outcome(Resolved(JA(parsed.val)), store, 0, "fetch"))

\* variant: the identity reads the lookback t where it reads min_adClose
FilterIdentityWithLookback(params) ==
  << <<"floor", params.floor>>, <<"min_ad", params.t>>,
     <<"max_ad", params.max_adClose>>, <<"min_ma", params.min_MA20>>,
     <<"max_ma", params.max_MA20>>,
     <<"breadthUrl", IF TruthyPrim(params.breadthUrl) THEN params.breadthUrl
                     ELSE Str(DEFAULT_BREADTH_URL)>> >>

\* fetchBreadthData, lines 112-121
FilterIdentity(params) ==
  << <<"floor", params.floor>>, <<"min_ad", params.min_adClose>>,
     <<"max_ad", params.max_adClose>>, <<"min_ma", params.min_MA20>>,
     <<"max_ma", params.max_MA20>>,
     <<"breadthUrl", IF TruthyPrim(params.breadthUrl) THEN params.breadthUrl
                     ELSE Str(DEFAULT_BREADTH_URL)>> >>
BreadthCacheKey(params) == getCacheKey("BREADTH", FilterIdentity(params))

\* String(x)
ToStr(s) ==
  CASE s.k = "num" -> ToString(s.n)
    [] s.k = "str" -> s.s
    [] OTHER -> s.k

\* lines 138-146, 150-152, 158
BreadthBaseUrl(params) ==
  IF TruthyPrim(params.breadthUrl) THEN params.breadthUrl.s ELSE DEFAULT_BREADTH_URL
QueryParams(params) ==
  << <<"t", ToStr(params.t)>>, <<"floor", ToStr(params.floor)>>,
     <<"min_adClose", ToStr(params.min_adClose)>>, <<"max_adClose", ToStr(params.max_adClose)>>,
     <<"min_MA20", ToStr(params.min_MA20)>>, <<"max_MA20", ToStr(params.max_MA20)>> >>
LatestUrl(params) == Url(BreadthBaseUrl(params), Append(QueryParams(params), <<"latest", "1">>))
HistoryUrl(params) == Url(BreadthBaseUrl(params), QueryParams(params))

\* the locals of a call, lines 122-131 and 155
NoLocals ==
  [cacheKey |-> <<>>, cachedData |-> <<>>, isCacheValid |-> FALSE, cacheAge |-> 0,
   shouldFetchHistory |-> FALSE]

\* variant: an entry past the freshness window also has the history refetched
BreadthLocalsStaleRefetch(store, clock, params) ==
  With(BreadthCacheKey(params), LAMBDA cacheKey :
    With(loadFromCache(store, clock, cacheKey, Null), LAMBDA cachedResult :
      With(cachedResult.hit /\ IsArray(cachedResult.data) /\ Len(cachedResult.data.items) > 0,
           LAMBDA valid :
        With(IF valid THEN cachedResult.data.items ELSE <<>>, LAMBDA cachedData :
          [NoLocals EXCEPT !.cacheKey = cacheKey, !.cachedData = cachedData,
                           !.isCacheValid = valid,
                           !.cacheAge = IF valid THEN cachedResult.age ELSE NO_CACHE_AGE,
                           !.shouldFetchHistory = ~valid \/ Len(cachedData) < HISTORY_MIN_LEN
                                                  \/ cachedResult.age >= BREADTH_MIN_FRESH]))))

BreadthLocals(store, clock, params) ==
  With(BreadthCacheKey(params), LAMBDA cacheKey :
    With(loadFromCache(store, clock, cacheKey, Null), LAMBDA cachedResult :
      With(cachedResult.hit /\ IsArray(cachedResult.data) /\ Len(cachedResult.data.items) > 0,
           LAMBDA valid :
        With(IF valid THEN cachedResult.data.items ELSE <<>>, LAMBDA cachedData :
          [NoLocals EXCEPT !.cacheKey = cacheKey, !.cachedData = cachedData,
                           !.isCacheValid = valid,
                           !.cacheAge = IF valid THEN cachedResult.age ELSE NO_CACHE_AGE,
                           !.shouldFetchHistory = ~valid \/ Len(cachedData) < HISTORY_MIN_LEN]))))

\* variant: the freshness window includes its end
ReturnsFreshInclusive(l) == l.isCacheValid /\ l.cacheAge <= BREADTH_MIN_FRESH

\* line 133
ReturnsFresh(l) == l.isCacheValid /\ l.cacheAge < BREADTH_MIN_FRESH

\* fetchWithFallback(url).catch(() => [])
RawOrEmpty(f) == IF f.st = "resolved" THEN f.value ELSE JA(<<>>)

\* the values of a Map in which the points `all` were set in turn under the
\* keys `keys`: a Map lists its keys in the order they were first set and
\* holds for each key the value set last
MapValues(all, keys) ==
  IF Cardinality({keys[i] : i \in 1..Len(keys)}) = Len(keys)
  THEN all  \* no key is set twice
  ELSE
  LET firsts == SelectSeq([i \in 1..Len(all) |-> i],
                          LAMBDA i : \A j \in 1..(i - 1) : keys[j] # keys[i])
      last(i) == LET same == {j \in i..Len(all) : keys[j] = keys[i]}
                 IN CHOOSE j \in same : \A k \in same : k <= j
  IN [n \in 1..Len(firsts) |-> all[last(firsts[n])]]

\* points.forEach(p => m.set(p.timestamp, p)) on the Map m, given as the
\* sequence of its values
MapSetAll(m, points) ==
  With(m \o points, LAMBDA all :
    With([i \in 1..Len(all) |-> TimestampOf(all[i])], LAMBDA keys :
      MapValues(all, keys)))

\* the timestamp as the comparator a.timestamp - b.timestamp reads it
SortKey(p) == ToNumber(TimestampOf(p))

\* the place each point takes in sort((a, b) => a.timestamp - b.timestamp),
\* as the result of a stable insertion sort.  A point whose timestamp is not
\* a number makes every difference with it NaN, which sort treats as 0: no
\* point moves across it, and the points between two such points are sorted
\* among themselves (where such points end up is implementation-defined in
\* JavaScript).
SortPlaces(keys) ==
  LET n == Len(keys)
      barriers == {i \in 1..n : keys[i].k # "num"}
      lo(i) == IF \E b \in barriers : b < i
               THEN 1 + CHOOSE b \in barriers : b < i /\ \A c \in barriers : c < i => c <= b
               ELSE 1
      hi(i) == IF \E b \in barriers : b > i
               THEN (CHOOSE b \in barriers : b > i /\ \A c \in barriers : c > i => c >= b) - 1
               ELSE n
  IN With(barriers, LAMBDA bs :
       [i \in 1..n |->
          IF i \in bs THEN i
          ELSE IF bs = {}
               THEN 1 + Cardinality({j \in 1..n : keys[j].n < keys[i].n})
                      + Cardinality({j \in 1..(i - 1) : keys[j].n = keys[i].n})
               ELSE lo(i) + Cardinality({j \in lo(i)..hi(i) : keys[j].n < keys[i].n})
                          + Cardinality({j \in lo(i)..(i - 1) : keys[j].n = keys[i].n})])

\* the keys are numbers in ascending order
InOrder(keys) ==
  \A i \in 1..Len(keys) :
    keys[i].k = "num" /\ (i < Len(keys) => keys[i + 1].k = "num" /\ keys[i].n <= keys[i + 1].n)

SortByTimestamp(points) ==
  With(points, LAMBDA ps :
    With([i \in 1..Len(ps) |-> SortKey(ps[i])], LAMBDA keys :
      IF InOrder(keys) THEN ps  \* a stable sort moves nothing
      ELSE With(SortPlaces(keys), LAMBDA place :
             [q \in 1..Len(ps) |-> ps[CHOOSE i \in 1..Len(ps) : place[i] = q]])))

\* variant: the history layer is set after the latest layer
MergedMapHistoryLast(l, historyPoints, latestPoints) ==
  LET fromCache == IF ~l.shouldFetchHistory /\ l.isCacheValid
                   THEN MapSetAll(<<>>, l.cachedData) ELSE <<>>
      withLatest == MapSetAll(fromCache, latestPoints)
  IN IF l.shouldFetchHistory THEN MapSetAll(withLatest, historyPoints) ELSE withLatest

\* lines 178-186: the layers of the merged map
MergedMap(l, historyPoints, latestPoints) ==
  LET fromCache == IF ~l.shouldFetchHistory /\ l.isCacheValid
                   THEN MapSetAll(<<>>, l.cachedData) ELSE <<>>
      withHistory == IF l.shouldFetchHistory
                     THEN MapSetAll(fromCache, historyPoints) ELSE fromCache
  IN MapSetAll(withHistory, latestPoints)

\* fetchBreadthData, the catch block (lines 196-202)
BreadthCatch(store, l) ==
  Outcome(Resolved(IF l.isCacheValid THEN JA(l.cachedData) ELSE JA(<<>>)), store, 0, "catch")

\* fetchBreadthData after Promise.all settled (lines 162-202); fs is the
\* pair of fetchWithFallback calls, latest and history
BreadthResume(store, clock, l, fs, quotaOk) ==
  LET latestRaw == RawOrEmpty(fs[1])
      historyRaw == IF l.shouldFetchHistory THEN RawOrEmpty(fs[2]) ELSE JA(<<>>)
      Unreadable(points) == \E i \in 1..Len(points) : ~CanRead(points[i])
  IN With(processRaw(latestRaw), LAMBDA latestPoints :
     With(processRaw(historyRaw), LAMBDA historyPoints :
       IF latestPoints.threw \/ historyPoints.threw
          \/ (l.shouldFetchHistory /\ Unreadable(historyPoints.val))
          \/ Unreadable(latestPoints.val)
       THEN BreadthCatch(store, l)
       ELSE With(SortByTimestamp(MergedMap(l, historyPoints.val, latestPoints.val)),
                 LAMBDA finalResult :
              IF Len(finalResult) > 0
              THEN Outcome(Resolved(JA(finalResult)),
                           SavedStore(store, clock, l.cacheKey, JA(finalResult), quotaOk),
                           1, "merge")
              ELSE Outcome(Resolved(JA(finalResult)), store, 0, "merge"))))

\* ---- inputs ----
\* DEFAULT_PARAMS (src/ai.ts:810-820) and variations of it
DefaultParams ==
  [t |-> Num(84), floor |-> Str("hnx,hose,upcom"), min_adClose |-> Num(2),
   max_adClose |-> Num(500), min_MA20 |-> Num(50), max_MA20 |-> Num(200000),
   breadthUrl |-> Str(DEFAULT_BREADTH_URL), fromDate |-> Undef, toDate |-> Undef,
   vnIndexUrl |-> Str(UrlString(SectorUrl)), indexCode |-> Str("8300")]
\* another lookback, date range and index: no filter field differs
OtherRangeParams ==
  [DefaultParams EXCEPT !.t = Num(12), !.fromDate = Str("2024-01-01"),
                        !.toDate = Str("2024-01-02"),
                        !.vnIndexUrl = Str(DEFAULT_VNINDEX_URL), !.indexCode = Str("VNINDEX")]
\* another exchange floor
OtherFloorParams == [DefaultParams EXCEPT !.floor = Str("hose")]
ParamSet == {DefaultParams, OtherRangeParams, OtherFloorParams}

\* the url argument of fetchVNIndexData; NoUrl is a call without one
UrlArgs == {NoUrl, SectorUrl}

CacheKeys == {VNCacheKey(u) : u \in UrlArgs} \cup {BreadthCacheKey(p) : p \in ParamSet}

Day1 == DateStr["2024-01-01"]
Day2 == DateStr["2024-01-02"]

\* index payloads: a falsy body, an object of no known shape, an array of
\* arrays in seconds, an array holding null
VNPayloads ==
  { JS(Null),
    JO([other |-> JS(Num(1))]),
    JA(<< JA(<<JS(Num(Day1 \div 1000)), JS(Num(1100))>>),
          JA(<<JS(Num(Day2 \div 1000)), JS(Num(1110))>>) >>),
    JA(<< JS(Null) >>) }

\* a flat breadth record whose counts come under the avg_ names
FlatItem(date, total, c20, c50, c200) ==
  JO([date |-> JS(date), total |-> JS(Num(total)), avg_ma20 |-> JS(Num(c20)),
      avg_ma50 |-> JS(Num(c50)), avg_ma200 |-> JS(Num(c200))])

\* one item of a series of the complex shape
SeriesItem(date, value, total) ==
  JO([date |-> JS(date), value |-> JS(Num(value)), total |-> JS(Num(total))])

\* "latest" payloads: one flat record for 2024-01-02, a flat record that
\* already carries ma20 and has no timestamp, an array holding null, the
\* three series of the complex shape for 2024-01-02, one flat record whose
\* date is an instant in ms during 2024-01-02
LatestPayloads ==
  { JA(<< FlatItem(Str("2024-01-02"), 100, 40, 30, 20) >>),
    JA(<< FlatItem(Num(Day2 + DAY \div 2), 100, 45, 35, 25) >>),
    JA(<< JO([date |-> JS(Str("2024-01-01")), total |-> JS(Num(100)), ma20 |-> JS(Num(40))]) >>),
    JA(<< JS(Null) >>),
    JO([data |-> JO([ma20 |-> JA(<< SeriesItem(Str("2024-01-02"), 80, 200) >>),
                     ma50 |-> JA(<< SeriesItem(Str("2024-01-02"), 60, 200) >>),
                     ma200 |-> JA(<< SeriesItem(Str("2024-01-02"), 0, 0) >>)])]) }

\* a history of n days that ends the day before 2024-01-01, in the form
\* the cache holds (the records carry ma20 and their timestamp)
LongHistory(n) ==
  JA([i \in 1..n |->
        JO([timestamp |-> JS(Num(Day1 - (n + 1 - i) * DAY)), total |-> JS(Num(100)),
            ma20 |-> JS(Num(50))])])

\* "history" payloads: two days, the second one also in the latest payloads
\* with other counts; a history one point short of HISTORY_MIN_LEN; an array
\* holding null
HistoryPayloads ==
  { JA(<< FlatItem(Str("2024-01-01"), 100, 60, 50, 40),
          FlatItem(Str("2024-01-02"), 100, 61, 51, 41) >>),
    LongHistory(HISTORY_MIN_LEN - 1),
    JA(<< JS(Null) >>) }

\* ---- state ----
Calls == 1..NumCalls
\* the start time of the model: the day after the payloads' last day
Now0 == Day2 + DAY
\* the amounts the clock advances by: to either side of the breadth
\* freshness window and of the index TTL
TickSteps == {BREADTH_MIN_FRESH - 1, BREADTH_MIN_FRESH, VNINDEX_TTL, VNINDEX_TTL + 1}

VARIABLES
  now,      \* Date.now()
  ticks,    \* number of clock advances so far
  starts,   \* number of calls started so far
  storage,  \* localStorage, restricted to the cache keys
  savedBy,  \* per cache key: the call that wrote the entry (not stored)
  pc,       \* per call: "idle", "await" (suspended at its await), "done"
  call,     \* per call: the function called and its argument
  loc,      \* per call: its locals
  fw,       \* per call: its fetchWithFallback calls <<first, second>>
  reqs,     \* per call: the HTTP requests it issued, in order
  saves,    \* per call: the number of saveToCache calls it made
  via,      \* per call: the return statement it took
  result,   \* per call: the promise it returned
  attempts, \* per fetchWithFallback call made on its own: the outcomes of
            \* its HTTP attempts, in order (not part of the program's state)
  input,    \* the arguments of a pure function applied on its own
  output,   \* what that application returned
  ui,       \* the state of the App component: what fetchData depends on, the
            \* loading and error flags, the four series
  cycles    \* the fetchData calls made so far, in order (not stored)

vars == <<now, ticks, starts, storage, savedBy, pc, call, loc, fw, reqs, saves, via, result,
          attempts, input, output, ui, cycles>>

NoCall == [fn |-> "none", url |-> NoUrl, params |-> DefaultParams]

\* what fetchData closes over (src/ai.ts:833-840, 904)
Deps(params, range, chart4Mode) ==
  [params |-> params, range |-> range, capType |-> "vnmid", chart4Mode |-> chart4Mode,
   activeStock |-> "PVD"]

\* the App component after its first render (src/ai.ts:833-848): the effect
\* that calls fetchData has yet to run
InitialUi ==
  [deps |-> Deps(DefaultParams, "1Y", "sector"), effect |-> TRUE, loading |-> FALSE,
   error |-> Null, breadthData |-> <<>>, vnIndexFixedData |-> <<>>, capData |-> <<>>,
   sectorData |-> <<>>]

\* no function has been applied on its own
NoInput == [fn |-> "none"]
NoOutput == [st |-> "none"]

\* the state after construction: nothing stored, nothing called
Quiescent ==
  /\ now = Now0
  /\ ticks = 0
  /\ starts = 0
  /\ storage = [k \in CacheKeys |-> NoItem]
  /\ savedBy = [k \in CacheKeys |-> NoCall]
  /\ pc = [c \in Calls |-> "idle"]
  /\ call = [c \in Calls |-> NoCall]
  /\ loc = [c \in Calls |-> NoLocals]
  /\ fw = [c \in Calls |-> <<NoFetch, NoFetch>>]
  /\ reqs = [c \in Calls |-> <<>>]
  /\ saves = [c \in Calls |-> 0]
  /\ via = [c \in Calls |-> ""]
  /\ result = [c \in Calls |-> Pending]
  /\ attempts = [c \in Calls |-> <<>>]
  /\ ui = InitialUi
  /\ cycles = <<>>

Init == Quiescent /\ input = NoInput /\ output = NoOutput

\* time passes.  The code reads the clock when a call starts and when it
\* saves, and uses it only through the age of cache entries: the clock
\* advances between calls, once there is an entry whose age it changes.
Tick(d) ==
  /\ ticks < MaxTicks
  /\ \A c \in Calls : pc[c] = "idle"
  /\ \E k \in CacheKeys : storage[k].k # "none"
  /\ now' = now + d
  /\ ticks' = ticks + 1
  /\ UNCHANGED <<starts, storage, savedBy, pc, call, loc, fw, reqs, saves, via, result, attempts, input, output, ui, cycles>>

\* a new call takes the first free slot
FreeSlot(c) == pc[c] = "idle" /\ \A b \in Calls : b < c => pc[b] # "idle"

\* fetchVNIndexData(url) up to its await (lines 77-88, 54-59)
CallVNIndex(c, url) ==
  /\ FreeSlot(c)
  /\ starts < MaxStarts
  /\ \E cacheKey \in {VNCacheKey(url)} :
     \E cached \in {loadFromCache(storage, now, cacheKey, Num(VNINDEX_TTL))} :
     \E f \in {fetchWithFallback(VNTargetUrl(url), now)} :
     /\ starts' = starts + 1
     /\ call' = [call EXCEPT ![c] = [NoCall EXCEPT !.fn = "fetchVNIndexData", !.url = url]]
     /\ loc' = [loc EXCEPT ![c] = [NoLocals EXCEPT !.cacheKey = cacheKey]]
     /\ IF cached.hit
        THEN /\ result' = [result EXCEPT ![c] = Resolved(cached.data)]
             /\ pc' = [pc EXCEPT ![c] = "done"]
             /\ via' = [via EXCEPT ![c] = "cache"]
             /\ UNCHANGED <<fw, reqs>>
        ELSE /\ fw' = [fw EXCEPT ![c] = <<f, NoFetch>>]
             /\ reqs' = [reqs EXCEPT ![c] = <<Request("direct", f.target)>>]
             /\ pc' = [pc EXCEPT ![c] = "await"]
             /\ UNCHANGED <<result, via>>
     /\ UNCHANGED <<now, ticks, storage, savedBy, saves, attempts, input, output, ui, cycles>>

\* fetchBreadthData(params) up to its await (lines 111-162, 54-59)
CallBreadth(c, params) ==
  /\ FreeSlot(c)
  /\ starts < MaxStarts
  /\ \E l \in {BreadthLocals(storage, now, params)} :
     \E latest \in {fetchWithFallback(LatestUrl(params), now)} :
     \E history \in {IF l.shouldFetchHistory
                     THEN fetchWithFallback(HistoryUrl(params), now) ELSE NoFetch} :
     /\ starts' = starts + 1
     /\ call' = [call EXCEPT ![c] = [NoCall EXCEPT !.fn = "fetchBreadthData", !.params = params]]
     /\ loc' = [loc EXCEPT ![c] = l]
     /\ IF ReturnsFresh(l)
        THEN /\ result' = [result EXCEPT ![c] = Resolved(JA(l.cachedData))]
             /\ pc' = [pc EXCEPT ![c] = "done"]
             /\ via' = [via EXCEPT ![c] = "cache"]
             /\ UNCHANGED <<fw, reqs>>
        ELSE /\ fw' = [fw EXCEPT ![c] = <<latest, history>>]
             /\ reqs' = [reqs EXCEPT ![c] =
                           <<Request("direct", latest.target)>> \o
                           (IF l.shouldFetchHistory
                            THEN <<Request("direct", history.target)>> ELSE <<>>)]
             /\ pc' = [pc EXCEPT ![c] = "await"]
             /\ UNCHANGED <<result, via>>
     /\ UNCHANGED <<now, ticks, storage, savedBy, saves, attempts, input, output, ui, cycles>>

\* the rest of the fetcher, run once every fetchWithFallback it awaits has
\* settled; when it saves, the write to the store succeeds or fails
Resumed(c, fs, quotaOk) ==
  IF call[c].fn = "fetchVNIndexData"
  THEN VNResume(storage, now, loc[c].cacheKey, fs[1], quotaOk)
  ELSE BreadthResume(storage, now, loc[c], fs, quotaOk)

Resume(c, fs) ==
  \E quotaOk \in BOOLEAN :
  \E out \in {Resumed(c, fs, quotaOk)} :
       /\ quotaOk \/ out.saves > 0  \* the write fails only if there is one
       /\ result' = [result EXCEPT ![c] = out.result]
       /\ storage' = out.store
       /\ savedBy' = IF out.saves > 0 /\ quotaOk
                     THEN [savedBy EXCEPT ![loc[c].cacheKey] = call[c]] ELSE savedBy
       /\ saves' = [saves EXCEPT ![c] = out.saves]
       /\ via' = [via EXCEPT ![c] = out.via]
       /\ pc' = [pc EXCEPT ![c] = "done"]

\* the bodies an attempt of this fetchWithFallback call can come back with
Bodies(c, slot) ==
  IF call[c].fn = "fetchVNIndexData" THEN VNPayloads
  ELSE IF slot = 1 THEN LatestPayloads ELSE HistoryPayloads
Attempts(c, slot) == {Failure(k) : k \in FailKinds} \cup {Success(b) : b \in Bodies(c, slot)}

\* the direct request of a fetchWithFallback call ends (lines 59-64)
DirectResponse(c, slot) ==
  /\ pc[c] = "await"
  /\ fw[c][slot].st = "direct"
  /\ \E o \in Attempts(c, slot) :
     \E fs \in {[fw[c] EXCEPT ![slot] = AfterDirect(fw[c][slot], o)]} :
       /\ fw' = [fw EXCEPT ![c] = fs]
       /\ reqs' = [reqs EXCEPT ![c] =
                     IF fs[slot].st = "proxy"
                     THEN Append(@, Request("proxy", fs[slot].target)) ELSE @]
       /\ IF Settled(fs[1]) /\ Settled(fs[2])
          THEN Resume(c, fs)
          ELSE UNCHANGED <<storage, savedBy, pc, saves, via, result>>
  /\ UNCHANGED <<now, ticks, starts, call, loc, attempts, input, output, ui, cycles>>

\* the relay request of a fetchWithFallback call ends (lines 65-71)
ProxyResponse(c, slot) ==
  /\ pc[c] = "await"
  /\ fw[c][slot].st = "proxy"
  /\ \E o \in Attempts(c, slot) :
     \E fs \in {[fw[c] EXCEPT ![slot] = AfterProxy(fw[c][slot], o)]} :
       /\ fw' = [fw EXCEPT ![c] = fs]
       /\ IF Settled(fs[1]) /\ Settled(fs[2])
          THEN Resume(c, fs)
          ELSE UNCHANGED <<storage, savedBy, pc, saves, via, result>>
  /\ UNCHANGED <<now, ticks, starts, call, loc, reqs, attempts, input, output, ui, cycles>>

\* the caller has taken the result; the slot is free for another call
Release(c) ==
  /\ pc[c] = "done"
  /\ pc' = [pc EXCEPT ![c] = "idle"]
  /\ call' = [call EXCEPT ![c] = NoCall]
  /\ loc' = [loc EXCEPT ![c] = NoLocals]
  /\ fw' = [fw EXCEPT ![c] = <<NoFetch, NoFetch>>]
  /\ reqs' = [reqs EXCEPT ![c] = <<>>]
  /\ saves' = [saves EXCEPT ![c] = 0]
  /\ via' = [via EXCEPT ![c] = ""]
  /\ result' = [result EXCEPT ![c] = Pending]
  /\ attempts' = [attempts EXCEPT ![c] = <<>>]
  /\ UNCHANGED <<input, output, ui, cycles>>
  /\ UNCHANGED <<now, ticks, starts, storage, savedBy>>

Next ==
  \/ \E d \in TickSteps : Tick(d)
  \/ \E c \in Calls, url \in UrlArgs : CallVNIndex(c, url)
  \/ \E c \in Calls, params \in ParamSet : CallBreadth(c, params)
  \/ \E c \in Calls, slot \in 1..2 : DirectResponse(c, slot)
  \/ \E c \in Calls, slot \in 1..2 : ProxyResponse(c, slot)
  \/ \E c \in Calls : Release(c)

Spec == Init /\ [][Next]_vars

TypeOK ==
  /\ \A c \in Calls : pc[c] \in {"idle", "await", "done"}
  /\ \A c \in Calls : result[c].st \in {"pending", "resolved", "rejected"}

\* ---- fetchWithFallback on its own (src/api.ts:54-73) ----
\* the URLs the program passes to it, and every body of the inputs
TransportUrls ==
  {DefaultVnIndexUrl, SectorUrl} \cup {LatestUrl(p) : p \in ParamSet}
                                 \cup {HistoryUrl(p) : p \in ParamSet}
AllPayloads == VNPayloads \cup LatestPayloads \cup HistoryPayloads
TransportAttempts == {Failure(k) : k \in FailKinds} \cup {Success(b) : b \in AllPayloads}

\* the promise fetchWithFallback returned, once its call has settled
Returned(f) == IF f.st = "resolved" THEN Resolved(f.value) ELSE Rejected

\* fetchWithFallback(u) up to its first await (lines 54-59)
TransportCall(c, u) ==
  /\ FreeSlot(c)
  /\ starts < MaxStarts
  /\ starts' = starts + 1
  /\ call' = [call EXCEPT ![c] = [NoCall EXCEPT !.fn = "fetchWithFallback", !.url = u]]
  /\ \E f \in {fetchWithFallback(u, now)} :
       /\ fw' = [fw EXCEPT ![c] = <<f, NoFetch>>]
       /\ reqs' = [reqs EXCEPT ![c] = <<Request("direct", f.target)>>]
  /\ pc' = [pc EXCEPT ![c] = "await"]
  /\ UNCHANGED <<now, ticks, storage, savedBy, loc, saves, via, result, attempts, input, output, ui, cycles>>

\* its direct request ends with outcome o (lines 59-64)
TransportDirect(c, o) ==
  /\ pc[c] = "await" /\ call[c].fn = "fetchWithFallback"
  /\ fw[c][1].st = "direct"
  /\ \E f \in {AfterDirect(fw[c][1], o)} :
       /\ fw' = [fw EXCEPT ![c][1] = f]
       /\ reqs' = [reqs EXCEPT ![c] =
                     IF f.st = "proxy" THEN Append(@, Request("proxy", f.target)) ELSE @]
       /\ IF Settled(f)
          THEN /\ result' = [result EXCEPT ![c] = Returned(f)]
               /\ pc' = [pc EXCEPT ![c] = "done"]
          ELSE UNCHANGED <<result, pc>>
  /\ attempts' = [attempts EXCEPT ![c] = Append(@, o)]
  /\ UNCHANGED <<input, output, ui, cycles>>
  /\ UNCHANGED <<now, ticks, starts, storage, savedBy, call, loc, saves, via>>

\* its relay request ends with outcome o (lines 65-71)
TransportProxy(c, o) ==
  /\ pc[c] = "await" /\ call[c].fn = "fetchWithFallback"
  /\ fw[c][1].st = "proxy"
  /\ \E f \in {AfterProxy(fw[c][1], o)} :
       /\ fw' = [fw EXCEPT ![c][1] = f]
       /\ reqs' = [reqs EXCEPT ![c] =
                     IF Settled(f) THEN @ ELSE Append(@, Request(f.st, f.target))]
       /\ IF Settled(f)
          THEN /\ result' = [result EXCEPT ![c] = Returned(f)]
               /\ pc' = [pc EXCEPT ![c] = "done"]
          ELSE UNCHANGED <<result, pc>>
  /\ attempts' = [attempts EXCEPT ![c] = Append(@, o)]
  /\ UNCHANGED <<input, output, ui, cycles>>
  /\ UNCHANGED <<now, ticks, starts, storage, savedBy, call, loc, saves, via>>

\* time passes while a fetchWithFallback call waits for a response
TransportTick ==
  /\ ticks < MaxTicks
  /\ \E c \in Calls : pc[c] = "await" /\ call[c].fn = "fetchWithFallback"
  /\ now' = now + 1
  /\ ticks' = ticks + 1
  /\ UNCHANGED <<starts, storage, savedBy, pc, call, loc, fw, reqs, saves, via, result, attempts, input, output, ui, cycles>>

TransportNext ==
  \/ \E c \in Calls, u \in TransportUrls : TransportCall(c, u)
  \/ \E c \in Calls, o \in TransportAttempts : TransportDirect(c, o)
  \/ \E c \in Calls, o \in TransportAttempts : TransportProxy(c, o)
  \/ TransportTick
  \/ \E c \in Calls : Release(c)

TransportSpec == Init /\ [][TransportNext]_vars

\* ---- getCacheKey on its own (src/api.ts:15-18) ----
\* parameter objects: every insertion order of three of the filter
\* identity's properties, each holding a number or a string of the same
\* digits
KeyNames == {"floor", "min_ad", "breadthUrl"}
KeyValues == {Num(2), Str("2")}
KeyOrders ==
  {o \in [1..Cardinality(KeyNames) -> KeyNames] :
     \A i, j \in DOMAIN o : i # j => o[i] # o[j]}
KeyObjects ==
  {[i \in DOMAIN o |-> <<o[i], v[o[i]]>>] : o \in KeyOrders, v \in [KeyNames -> KeyValues]}
KeyPrefixes == {"BREADTH", "VNINDEX"}

\* untouched variables of a function applied on its own
Rest == <<now, ticks, starts, storage, savedBy, pc, call, loc, fw, reqs, saves, via, result,
          attempts, ui, cycles>>
Return(v) == [st |-> "returned", val |-> v]

KeyInit ==
  /\ Quiescent
  /\ input \in {[fn |-> "getCacheKey", prefix |-> p, a |-> a, b |-> b] :
                  p \in KeyPrefixes, a \in KeyObjects, b \in KeyObjects}
  /\ output = NoOutput

\* getCacheKey(prefix, a) and getCacheKey(prefix, b)
KeyApply ==
  /\ input.fn = "getCacheKey" /\ output = NoOutput
  /\ output' = Return(<<getCacheKey(input.prefix, input.a),
                        getCacheKey(input.prefix, input.b)>>)
  /\ UNCHANGED <<input, Rest>>

KeySpec == KeyInit /\ [][KeyApply]_vars

\* ---- parseVNIndexData on its own (src/ai.ts:707-756) ----
\* elements of a payload array: rows [time, close] with the time in seconds,
\* five-long rows with the time in milliseconds, a row without a close, a row
\* of strings
ParseRows ==
  { JA(<<JS(Num(Day1 \div 1000)), JS(Num(1100))>>),
    JA(<<JS(Num(Day2)), JS(Num(1)), JS(Num(2)), JS(Num(0)), JS(Num(1110))>>),
    JA(<<JS(Num(Day1))>>),
    JA(<<JS(Str("2024-01-01")), JS(Str("n/a"))>>) }
\* records: date and value; a value of 0 before another value key; the t/c
\* aliases with a numeric string; a date that does not parse; a null under
\* the only value key; no known key
ParseRecords ==
  { JO([date |-> JS(Str("2024-01-01")), value |-> JS(Num(1100))]),
    JO([date |-> JS(Str("2024-01-02")), value |-> JS(Num(0)), close |-> JS(Num(7))]),
    JO([t |-> JS(Num(Day1 \div 1000)), c |-> JS(Str("100"))]),
    JO([time |-> JS(Str("soon")), close |-> JS(Num(5))]),
    JO([dt |-> JS(Num(Day2)), price |-> JS(Null)]),
    JO([other |-> JS(Num(1))]) }
ParsePrimitives == {JS(Null), JS(Num(5))}
ParseElements == ParseRows \cup ParseRecords \cup ParsePrimitives
ParseArrays ==
  {JA(items) : items \in UNION {[1..n -> ParseElements] : n \in 0..MaxRows}}
\* { t: [...], c: [...] }, c as long as t or shorter, and c not an array
ParseColumnar ==
  { JO([t |-> JA(<<JS(Num(Day1 \div 1000)), JS(Num(Day2))>>),
        c |-> JA(<<JS(Num(1100)), JS(Num(1110))>>)]),
    JO([t |-> JA(<<JS(Num(Day1 \div 1000)), JS(Num(Day2))>>),
        c |-> JA(<<JS(Num(1100))>>)]),
    JO([t |-> JA(<<JS(Num(Day1 \div 1000))>>), c |-> JS(Num(1100))]) }
ParseInputs ==
  ParseArrays \cup {JO([data |-> a]) : a \in ParseArrays} \cup ParseColumnar
    \cup {JO([data |-> c]) : c \in ParseColumnar}
    \cup {JS(Null), JS(Num(5)), JS(Str("x")), JO([other |-> JS(Num(1))])}

ParseInit ==
  /\ Quiescent
  /\ input \in {[fn |-> "parseVNIndexData", data |-> d] : d \in ParseInputs}
  /\ output = NoOutput

\* parseVNIndexData(data): the array it returns, or the exception it throws
ParseApply ==
  /\ input.fn = "parseVNIndexData" /\ output = NoOutput
  /\ \E r \in {parseVNIndexData(input.data)} :
       output' = IF r.threw THEN [st |-> "threw", val |-> <<>>] ELSE Return(r.val)
  /\ UNCHANGED <<input, Rest>>

ParseSpec == ParseInit /\ [][ParseApply]_vars

\* ---- chartData (src/ai.ts:916-986) ----
\* formatDate(ts), lines 690-693: day and month of the date, read here in
\* UTC; the days of the inputs by name, any other day by its number
DayMonth == ("2024-01-01" :> "01/01") @@ ("2024-01-02" :> "02/01")
formatDate(ts) ==
  With(IsoDate(ts), LAMBDA day :
    IF day.s \in DOMAIN DayMonth THEN Str(DayMonth[day.s]) ELSE Str("dd/mm of " \o day.s))

\* getDateKey(ts), line 921: toISOString throws a RangeError on an invalid date
getDateKey(ts) == IF ValidDate(ts) THEN Ok(IsoDate(ts)) ELSE Threw

\* dataMap is the sequence of its entries [key, fields] in insertion order
IndexOfKey(dataMap, key) == CHOOSE i \in DOMAIN dataMap : dataMap[i].key = key

\* getOrCreate(ts, key), lines 924-934, as the Map it leaves
getOrCreate(dataMap, ts, key) ==
  IF \E i \in DOMAIN dataMap : dataMap[i].key = key THEN dataMap
  ELSE Append(dataMap,
              [key |-> key,
               fields |-> [date |-> JS(key), timestamp |-> JS(ts),
                           formattedDate |-> JS(formatDate(ts)), vnIndex |-> JUndef,
                           capVal |-> JUndef, sectorVal |-> JUndef]])

\* Object.assign(item, b): the properties of b are set on item
ObjectAssign(fields, b) == IF b.k = "object" THEN b.fields @@ fields ELSE fields

\* the callback of breadthData.forEach, lines 937-940
MergeBreadthPoint(dataMap, b) ==
  IF ~CanRead(b) THEN Threw
  ELSE With(Prim(Get(b, "timestamp")), LAMBDA ts :
         With(getDateKey(ts), LAMBDA key :
           IF key.threw THEN Threw
           ELSE With(getOrCreate(dataMap, ts, key.val), LAMBDA m :
                  Ok([m EXCEPT ![IndexOfKey(m, key.val)].fields = ObjectAssign(@, b)]))))

\* variant: a close is stored only when it is truthy
MergeIndexPointTruthy(dataMap, v, field) ==
  IF ~CanRead(v) THEN Threw
  ELSE With(Prim(Get(v, "timestamp")), LAMBDA ts :
         With(getDateKey(ts), LAMBDA key :
           IF key.threw THEN Threw
           ELSE With(getOrCreate(dataMap, ts, key.val), LAMBDA m :
                  IF Truthy(Get(v, "close"))
                  THEN Ok([m EXCEPT ![IndexOfKey(m, key.val)].fields[field] = Get(v, "close")])
                  ELSE Ok(m))))

\* the callback of vnIndexFixedData.forEach, capData.forEach and
\* sectorData.forEach, lines 943-964; field is vnIndex, capVal or sectorVal
MergeIndexPoint(dataMap, v, field) ==
  IF ~CanRead(v) THEN Threw
  ELSE With(Prim(Get(v, "timestamp")), LAMBDA ts :
         With(getDateKey(ts), LAMBDA key :
           IF key.threw THEN Threw
           ELSE With(getOrCreate(dataMap, ts, key.val), LAMBDA m :
                  IF Prim(Get(v, "close")).k \notin {"null", "undefined"}
                  THEN Ok([m EXCEPT ![IndexOfKey(m, key.val)].fields[field] = Get(v, "close")])
                  ELSE Ok(m))))

\* series.forEach over dataMap; field "" is the breadth series
RECURSIVE MergeSeries(_, _, _)
MergeSeries(merged, series, field) ==
  IF merged.threw \/ series = <<>> THEN merged
  ELSE MergeSeries(IF field = "" THEN MergeBreadthPoint(merged.val, Head(series))
                   ELSE MergeIndexPoint(merged.val, Head(series), field),
                   Tail(series), field)

\* lines 919-967: the sorted records before the filter
SortedRecords(src) ==
  With(MergeSeries(MergeSeries(MergeSeries(MergeSeries(Ok(<<>>), src.breadthData, ""),
                                           src.vnIndexFixedData, "vnIndex"),
                               src.capData, "capVal"),
                   src.sectorData, "sectorVal"), LAMBDA merged :
    IF merged.threw THEN Threw
    ELSE Ok(SortByTimestamp([i \in DOMAIN merged.val |-> JO(merged.val[i].fields)])))

\* the ranges table, line 975
RangeDays ==
  ("1M" :> 30) @@ ("3M" :> 90) @@ ("6M" :> 180) @@ ("1Y" :> 365) @@ ("3Y" :> 1095)
    @@ ("5Y" :> 1825) @@ ("7Y" :> 2555)

\* a >= b and a < b of a timestamp and a bound, with Number() coercion
AtLeast(a, b) == ToNumber(a).k = "num" /\ b.k = "num" /\ ToNumber(a).n >= b.n
Below(a, b) == ToNumber(a).k = "num" /\ b.k = "num" /\ ToNumber(a).n < b.n

\* variant: the day of toDate is not kept
FilterRangeToExclusive(sorted, src, clock) ==
  IF TruthyPrim(src.fromDate) \/ TruthyPrim(src.toDate)
  THEN With(IF TruthyPrim(src.fromDate) THEN DateGetTime(src.fromDate) ELSE Num(0),
            LAMBDA from :
         SelectSeq(sorted, LAMBDA d :
           /\ AtLeast(TimestampOf(d), from)
           /\ IF TruthyPrim(src.toDate)
              THEN Below(TimestampOf(d), DateGetTime(src.toDate))
              ELSE ToNumber(TimestampOf(d)).k = "num"))
  ELSE IF src.range \in DOMAIN RangeDays
       THEN SelectSeq(sorted, LAMBDA d :
              AtLeast(TimestampOf(d), Num(clock - RangeDays[src.range] * DAY)))
       ELSE sorted

\* lines 970-983: the date filter
FilterRange(sorted, src, clock) ==
  IF TruthyPrim(src.fromDate) \/ TruthyPrim(src.toDate)
  THEN With(IF TruthyPrim(src.fromDate) THEN DateGetTime(src.fromDate) ELSE Num(0),
            LAMBDA from :
         SelectSeq(sorted, LAMBDA d :
           /\ AtLeast(TimestampOf(d), from)
           /\ IF TruthyPrim(src.toDate)
              THEN DateGetTime(src.toDate).k = "num"
                   /\ Below(TimestampOf(d), Num(DateGetTime(src.toDate).n + DAY))
              ELSE ToNumber(TimestampOf(d)).k = "num"))
  ELSE IF src.range \in DOMAIN RangeDays
       THEN SelectSeq(sorted, LAMBDA d :
              AtLeast(TimestampOf(d), Num(clock - RangeDays[src.range] * DAY)))
       ELSE sorted

\* chartData: what it returns, with the sorted records it filtered
chartData(src, clock) ==
  IF src.breadthData = <<>> /\ src.vnIndexFixedData = <<>>
  THEN [threw |-> FALSE, sorted |-> <<>>, val |-> <<>>]
  ELSE With(SortedRecords(src), LAMBDA sorted :
         IF sorted.threw THEN [threw |-> TRUE, sorted |-> <<>>, val |-> <<>>]
         ELSE [threw |-> FALSE, sorted |-> sorted.val,
               val |-> FilterRange(sorted.val, src, clock)])

\* points of the index series: a close on 2024-01-01, a null close later
\* that day (a NaN close that went through the cache), a close of 0 and
\* another close on 2024-01-02, a close 40 days before 2024-01-01
IndexPoints ==
  { VNPoint(Num(Day1), Num(1100)), VNPoint(Num(Day1 + 360), Null),
    VNPoint(Num(Day2), Num(0)), VNPoint(Num(Day2 + 360), Num(1110)),
    VNPoint(Num(Day1 - 40 * DAY), Num(1000)) }
SeriesOf(points, n) == UNION {[1..m -> points] : m \in 0..n}
\* the breadth series: none, one day, two days, and the record that
\* processRaw lets through without a timestamp
BreadthSeries ==
  { <<>>,
    <<BreadthPoint(Str("2024-01-01"), Num(Day1), Num(100), Num(40), Num(30), Num(20))>>,
    <<BreadthPoint(Str("2024-01-01"), Num(Day1), Num(100), Num(40), Num(30), Num(20)),
      BreadthPoint(Str("2024-01-02"), Num(Day2), Num(100), Num(41), Num(31), Num(21))>>,
    <<JO([date |-> JS(Str("2024-01-01")), total |-> JS(Num(100)), ma20 |-> JS(Num(40))])>> }
\* the date filter: none set (the range applies, and a cleared date input
\* holds ""), from set, to set, both set
ChartFilters ==
  { [fromDate |-> Undef, toDate |-> Undef, range |-> "1M"],
    [fromDate |-> Str(""), toDate |-> Undef, range |-> "3M"],
    [fromDate |-> Str("2024-01-02"), toDate |-> Undef, range |-> "1M"],
    [fromDate |-> Undef, toDate |-> Str("2024-01-01"), range |-> "7Y"],
    [fromDate |-> Str("2024-01-01"), toDate |-> Str("2024-01-01"), range |-> "1M"] }
ChartSources ==
  { [breadthData |-> b, vnIndexFixedData |-> v, capData |-> c, sectorData |-> s,
     fromDate |-> f.fromDate, toDate |-> f.toDate, range |-> f.range] :
      b \in BreadthSeries, v \in SeriesOf(IndexPoints, MaxRows),
      c \in SeriesOf(IndexPoints, 1), s \in SeriesOf(IndexPoints, 1), f \in ChartFilters }

ChartInit ==
  /\ Quiescent
  /\ input \in {[fn |-> "chartData", src |-> src] : src \in ChartSources}
  /\ output = NoOutput

\* the memo function of chartData runs on the four series
ChartApply ==
  /\ input.fn = "chartData" /\ output = NoOutput
  /\ \E r \in {chartData(input.src, now)} :
       output' = IF r.threw THEN [st |-> "threw", val |-> <<>>, sorted |-> <<>>]
                 ELSE [st |-> "returned", val |-> r.val, sorted |-> r.sorted]
  /\ UNCHANGED <<input, Rest>>

ChartSpec == ChartInit /\ [][ChartApply]_vars

\* ---- fetchData and the effect that calls it (src/ai.ts:866-908) ----
VNINDEX_URLS ==
  ("1M" :> "https://api.alphastock.vn/charts_json/vnindex_1m.json")
    @@ ("3M" :> "https://api.alphastock.vn/charts_json/vnindex_3m.json")
    @@ ("6M" :> "https://api.alphastock.vn/charts_json/vnindex_6m.json")
    @@ ("1Y" :> "https://api.alphastock.vn/charts_json/vnindex_1y.json")
    @@ ("3Y" :> "https://api.alphastock.vn/charts_json/vnindex_3y.json")
    @@ ("5Y" :> "https://api.alphastock.vn/charts_json/vnindex_5y.json")
    @@ ("7Y" :> "https://api.alphastock.vn/charts_json/vnindex_5y.json")
\* range.toLowerCase(), with 7y replaced by 5y (lines 873-874)
TimeSuffix ==
  ("1M" :> "1m") @@ ("3M" :> "3m") @@ ("6M" :> "6m") @@ ("1Y" :> "1y") @@ ("3Y" :> "3y")
    @@ ("5Y" :> "5y") @@ ("7Y" :> "5y")
\* activeStock.toLowerCase()
LowerCase == ("PVD" :> "pvd")

\* the arguments of the four fetches of a cycle (lines 870-887): the breadth
\* parameters, the reference index URL, the cap index URL, the URL of chart 4
FetchArgs(deps) ==
  << deps.params,
     Str(IF deps.range \in DOMAIN VNINDEX_URLS THEN VNINDEX_URLS[deps.range]
         ELSE VNINDEX_URLS["5Y"]),
     Str("https://api.alphastock.vn/charts_json/" \o deps.capType \o "_"
           \o TimeSuffix[deps.range] \o ".json"),
     IF deps.chart4Mode = "stock" /\ deps.activeStock # ""
     THEN Str("https://api.alphastock.vn/api/history?code=" \o LowerCase[deps.activeStock])
     ELSE deps.params.vnIndexUrl >>

\* what a fetcher resolves with: the series fetched for its argument, or []
\* when it had neither a response nor a cache entry.  The fetchers never
\* reject (fetchVNIndexData and fetchBreadthData return from their catch
\* blocks), so Promise.all never does.
SeriesFor(arg) == <<[for |-> arg]>>
PendingFetch == [st |-> "pending", value |-> <<>>]

\* what the user can make fetchData depend on: the initial state, another
\* floor, another range, a stock in chart 4
DepsSet ==
  { Deps(DefaultParams, "1Y", "sector"), Deps(OtherFloorParams, "1Y", "sector"),
    Deps(DefaultParams, "7Y", "sector"), Deps(DefaultParams, "1Y", "stock") }

\* setParams, setRange, handleStockSubmit...: fetchData is a new function,
\* the effect of line 906 will call it
ChangeDeps(deps) ==
  /\ Len(cycles) < MaxCycles
  /\ deps # ui.deps
  /\ ui' = [ui EXCEPT !.deps = deps, !.effect = TRUE]
  /\ UNCHANGED <<cycles, input, output, now, ticks, starts, storage, savedBy, pc, call, loc,
                 fw, reqs, saves, via, result, attempts>>

\* fetchData up to its await (lines 867-887): the flags are set and the four
\* fetches are started
StartCycle(byEffect) ==
  /\ Len(cycles) < MaxCycles
  /\ ui.effect = byEffect
  /\ ui' = [ui EXCEPT !.effect = FALSE, !.loading = TRUE, !.error = Null]
  /\ cycles' = Append(cycles, [st |-> "flight", deps |-> ui.deps,
                               fetches |-> [i \in 1..4 |-> PendingFetch]])
  /\ UNCHANGED <<input, output, now, ticks, starts, storage, savedBy, pc, call, loc,
                 fw, reqs, saves, via, result, attempts>>

\* one of the four promises of cycle c resolves
FetchSettles(c, i, fetched) ==
  /\ c \in DOMAIN cycles /\ cycles[c].st = "flight"
  /\ cycles[c].fetches[i].st = "pending"
  /\ cycles' = [cycles EXCEPT ![c].fetches[i] =
                  [st |-> "resolved",
                   value |-> IF fetched THEN SeriesFor(FetchArgs(cycles[c].deps)[i])
                             ELSE <<>>]]
  /\ UNCHANGED <<ui, input, output, now, ticks, starts, storage, savedBy, pc, call, loc,
                 fw, reqs, saves, via, result, attempts>>

\* variant: the cycle goes on as soon as one promise has resolved
JoinedAny(cycle) == \E i \in DOMAIN cycle.fetches : cycle.fetches[i].st = "resolved"

\* await Promise.all(...), line 883: all four promises have resolved
Joined(cycle) == \A i \in DOMAIN cycle.fetches : cycle.fetches[i].st = "resolved"

\* variant: a cycle whose dependencies are no longer the current ones stores
\* nothing
AfterCycleIfCurrent(state, cycle) ==
  IF cycle.deps # state.deps THEN [state EXCEPT !.loading = FALSE]
  ELSE [state EXCEPT
          !.error = IF Len(cycle.fetches[1].value) = 0 /\ Len(cycle.fetches[2].value) = 0
                    THEN Str("no data") ELSE @,
          !.breadthData = cycle.fetches[1].value,
          !.vnIndexFixedData = cycle.fetches[2].value,
          !.capData = cycle.fetches[3].value,
          !.sectorData = cycle.fetches[4].value,
          !.loading = FALSE]

\* lines 890-901: the component state after the rest of fetchData has run;
\* "no data" stands for the message of line 891
AfterCycle(state, cycle) ==
  [state EXCEPT
     !.error = IF Len(cycle.fetches[1].value) = 0 /\ Len(cycle.fetches[2].value) = 0
               THEN Str("no data") ELSE @,
     !.breadthData = cycle.fetches[1].value,
     !.vnIndexFixedData = cycle.fetches[2].value,
     !.capData = cycle.fetches[3].value,
     !.sectorData = cycle.fetches[4].value,
     !.loading = FALSE]

\* fetchData after its await (lines 883-901)
FinishCycle(c) ==
  /\ c \in DOMAIN cycles /\ cycles[c].st = "flight"
  /\ Joined(cycles[c])
  /\ ui' = AfterCycle(ui, cycles[c])
  /\ cycles' = [cycles EXCEPT ![c].st = "done"]
  /\ UNCHANGED <<input, output, now, ticks, starts, storage, savedBy, pc, call, loc,
                 fw, reqs, saves, via, result, attempts>>

RefreshNext ==
  \/ \E deps \in DepsSet : ChangeDeps(deps)
  \/ StartCycle(TRUE)     \* the effect runs
  \/ StartCycle(FALSE)    \* the refresh button, onRefresh={fetchData}
  \/ \E c \in 1..MaxCycles, i \in 1..4, fetched \in BOOLEAN : FetchSettles(c, i, fetched)
  \/ \E c \in 1..MaxCycles : FinishCycle(c)

RefreshSpec == Init /\ [][RefreshNext]_vars

\* ---- loadFromCache on any stored value (src/api.ts:32-50) ----
\* what localStorage.getItem(key) gives: null, a text that JSON.parse
\* rejects, or the text of a JSON value
StoredNone == [k |-> "none", payload |-> JUndef]
StoredText == [k |-> "text", payload |-> JUndef]
StoredJson(j) == [k |-> "json", payload |-> j]

\* a - b on numbers
Minus(a, b) == IF a.k = "num" /\ b.k = "num" THEN Num(a.n - b.n) ELSE NaN
\* a > b on numbers: a comparison with NaN is false
Greater(a, b) == a.k = "num" /\ b.k = "num" /\ a.n > b.n

Miss == [hit |-> FALSE, data |-> JUndef, age |-> Undef]

\* lines 34-46, the body of the try block
LoadTry(item, clock, ttl) ==
  IF item.k = "none" THEN Ok(Miss)
  ELSE IF item.k = "text" THEN Threw  \* JSON.parse throws
  ELSE IF ~Truthy(item.payload) \/ ~Truthy(Get(item.payload, "data")) THEN Ok(Miss)
  ELSE With(Minus(Num(clock), ToNumberJ(Get(item.payload, "timestamp"))), LAMBDA age :
         IF ttl.k # "null" /\ Greater(age, ttl) THEN Ok(Miss)
         ELSE Ok([hit |-> TRUE, data |-> Get(item.payload, "data"), age |-> age]))

\* loadFromCache as a function of the stored value, the clock and the ttl:
\* what the try block returns, or null from the catch block
loadStored(item, clock, ttl) ==
  With(LoadTry(item, clock, ttl), LAMBDA r : IF r.threw THEN Ok(Miss) ELSE r)

\* the timestamp and the data of stored payloads; Undef is a property
\* that is missing
StoredTimestamps ==
  {Undef, Null, Str("abc"), Str("100"), Num(Now0), Num(Now0 - VNINDEX_TTL - 1)}
StoredData ==
  {JUndef, JS(Null), JA(<<>>), JA(<<VNPoint(Num(Day1), Num(1100))>>)}
StoredPayload(timestamp, data) ==
  LET present == (IF timestamp.k = "undefined" THEN {} ELSE {"timestamp"})
                 \cup (IF Prim(data).k = "undefined" THEN {} ELSE {"data"})
  IN JO([f \in present |-> IF f = "timestamp" THEN JS(timestamp) ELSE data])
StoredItems ==
  {StoredNone, StoredText}
  \cup {StoredJson(j) : j \in {JS(Null), JS(Num(5)), JS(Str("abc")), JA(<<>>)}}
  \cup {StoredJson(StoredPayload(t, d)) : t \in StoredTimestamps, d \in StoredData}
\* the ttl arguments of the callers (lines 82, 105, 126)
LoadTtls == {Null, Num(VNINDEX_TTL)}
LoadClocks == {Now0, Now0 + BREADTH_MIN_FRESH}

LoadInit ==
  /\ Quiescent
  /\ input \in {[fn |-> "loadFromCache", item |-> i, clock |-> c, ttl |-> t] :
                  i \in StoredItems, c \in LoadClocks, t \in LoadTtls}
  /\ output = NoOutput

LoadApply ==
  /\ input.fn = "loadFromCache" /\ output = NoOutput
  /\ \E r \in {loadStored(input.item, input.clock, input.ttl)} :
       output' = IF r.threw THEN [st |-> "threw", val |-> Miss] ELSE Return(r.val)
  /\ UNCHANGED <<input, Rest>>

LoadSpec == LoadInit /\ [][LoadApply]_vars

\* ---- fetchBreadthData calls that overlap (src/api.ts:111-203) ----
\* A call suspended at its await leaves the event loop free: a second call
\* on the same filter identity can start, read the store, and suspend too.
\* The store starts empty and the clock stands still, so a second call that
\* starts after the first one wrote returns from the fresh cache.
OverlappingCalls == 1..NumOverlapping
\* the parameters of the calls: one filter identity
OverlapParams == {DefaultParams}

OverlapInit ==
  /\ now = Now0
  /\ ticks = 0
  /\ starts = 0
  /\ storage = [k \in CacheKeys |-> NoItem]
  /\ savedBy = [k \in CacheKeys |-> NoCall]
  /\ pc = [c \in OverlappingCalls |-> "idle"]
  /\ call = [c \in OverlappingCalls |-> NoCall]
  /\ loc = [c \in OverlappingCalls |-> NoLocals]
  /\ fw = [c \in OverlappingCalls |-> <<NoFetch, NoFetch>>]
  /\ reqs = [c \in OverlappingCalls |-> <<>>]
  /\ saves = [c \in OverlappingCalls |-> 0]
  /\ via = [c \in OverlappingCalls |-> ""]
  /\ result = [c \in OverlappingCalls |-> Pending]
  /\ attempts = [c \in OverlappingCalls |-> <<>>]
  /\ ui = InitialUi
  /\ cycles = <<>>
  /\ input = NoInput
  /\ output = NoOutput

OverlapNext ==
  \/ \E c \in OverlappingCalls, params \in OverlapParams : CallBreadth(c, params)
  \/ \E c \in OverlappingCalls, slot \in 1..2 : DirectResponse(c, slot)
  \/ \E c \in OverlappingCalls, slot \in 1..2 : ProxyResponse(c, slot)

OverlapSpec == OverlapInit /\ [][OverlapNext]_vars

\* ---- properties ----
\* call c starts / returns in this step
Starts(c) == pc[c] = "idle" /\ pc'[c] # "idle"
Completes(c) == pc[c] = "await" /\ pc'[c] = "done"
IsVN(c) == call[c].fn = "fetchVNIndexData"
IsBreadth(c) == call[c].fn = "fetchBreadthData"
\* the call resolved to the empty array
ReturnedEmpty(c) == result[c] = Resolved(JA(<<>>))
\* the points of the entry the store holds under a key (none if no entry)
EntryPoints(store, key) ==
  IF store[key].k = "entry" /\ IsArray(store[key].data) THEN store[key].data.items ELSE <<>>
\* the direct request for this URL is among the requests
IssuedIn(requests, u) ==
  \E i \in 1..Len(requests) : requests[i].via = "direct" /\ requests[i].target.url = u
Issued(c, u) == IssuedIn(reqs[c], u)

\* C1: neither fetcher ever rejects: the promise of a call is never
\* rejected, and a call that returned resolved to an array (possibly empty).
C1_NeverRejects ==
  \A c \in Calls :
    /\ result[c].st # "rejected"
    /\ pc[c] = "done" => result[c].st = "resolved" /\ IsArray(result[c].value)

\* a call of fetchVNIndexData whose direct and relay attempts both failed
\* has returned through the catch block
C1_Witness ==
  \E c \in Calls :
    /\ pc[c] = "done" /\ IsVN(c) /\ via[c] = "catch"
    /\ fw[c][1].st = "rejected"
    /\ result[c].st = "resolved"

\* C2 as stated: a fetchVNIndexData call that returned the empty array
\* found no cache entry under its key.
C2_EmptyOnlyWithoutEntry ==
  \A c \in Calls :
    pc[c] = "done" /\ IsVN(c) /\ ReturnedEmpty(c) => storage[loc[c].cacheKey].k = "none"

\* C3 as stated: a fetchBreadthData call all of whose network queries
\* failed returned the cached series its entry held (empty if no entry).
C3_AllFailedReturnsCache ==
  \A c \in Calls :
    pc[c] = "done" /\ IsBreadth(c) /\ reqs[c] # <<>>
      /\ (\A slot \in 1..2 : fw[c][slot].st \in {"none", "rejected"})
    => result[c] = Resolved(JA(loc[c].cachedData))

\* C4 as stated: a fetchBreadthData call that does not return from the
\* fresh cache issues the latest query, and issues the history query iff
\* the entry is absent, stale (past the freshness window) or shorter than
\* HISTORY_MIN_LEN.
C4_HistoryIffAbsentStaleOrShort ==
  [][\A c \in Calls :
       Starts(c) /\ call'[c].fn = "fetchBreadthData" /\ pc'[c] = "await" =>
         LET key == BreadthCacheKey(call'[c].params)
             points == EntryPoints(storage, key)
         IN /\ IssuedIn(reqs'[c], LatestUrl(call'[c].params))
            /\ IssuedIn(reqs'[c], HistoryUrl(call'[c].params)) <=>
                 \/ points = <<>>
                 \/ now - storage[key].timestamp >= BREADTH_MIN_FRESH
                 \/ Len(points) < HISTORY_MIN_LEN]_vars

\* C4, amended: a fetchBreadthData call that does not return from the fresh
\* cache issues the latest query, and issues the history query iff the
\* entry is absent or shorter than HISTORY_MIN_LEN; the age of the entry
\* does not decide it.
C4_HistoryIffAbsentOrShort ==
  [][\A c \in Calls :
       Starts(c) /\ call'[c].fn = "fetchBreadthData" /\ pc'[c] = "await" =>
         LET key == BreadthCacheKey(call'[c].params)
             points == EntryPoints(storage, key)
         IN /\ IssuedIn(reqs'[c], LatestUrl(call'[c].params))
            /\ IssuedIn(reqs'[c], HistoryUrl(call'[c].params)) <=>
                 (points = <<>> \/ Len(points) < HISTORY_MIN_LEN)]_vars

\* a call found an entry of HISTORY_MIN_LEN points or more past the
\* freshness window, and has sent the latest query alone
C4_Witness ==
  \E c \in Calls :
    /\ pc[c] = "await" /\ IsBreadth(c)
    /\ loc[c].isCacheValid /\ Len(loc[c].cachedData) >= HISTORY_MIN_LEN
    /\ loc[c].cacheAge >= BREADTH_MIN_FRESH
    /\ Issued(c, LatestUrl(call[c].params))
    /\ ~Issued(c, HistoryUrl(call[c].params))

\* the timestamps of a series, and the point a series holds last for one
Keys(points) == {TimestampOf(points[i]) : i \in 1..Len(points)}
PointAt(points, ts) ==
  LET at == {i \in 1..Len(points) : TimestampOf(points[i]) = ts}
  IN points[CHOOSE i \in at : \A j \in at : j <= i]
\* the latest and history points a returned call had received
LatestOf(c) == processRaw(RawOrEmpty(fw[c][1])).val
HistoryOf(c) == IF fw[c][2].st = "none" THEN <<>> ELSE processRaw(RawOrEmpty(fw[c][2])).val

\* C5: the merged series of fetchBreadthData holds one point per timestamp
\* of its layers: the cached series (only when the history was not
\* refetched), the history points, the latest points; for a timestamp the
\* latest response holds, the point is the latest response's; else the
\* history's; else the cache's.
C5_LatestWins ==
  \A c \in Calls :
    pc[c] = "done" /\ IsBreadth(c) /\ via[c] = "merge" =>
      \E latest \in {LatestOf(c)}, history \in {HistoryOf(c)},
         cached \in {IF fw[c][2].st = "none" THEN loc[c].cachedData ELSE <<>>},
         merged \in {result[c].value.items} :
         /\ Keys(merged) = Keys(cached) \cup Keys(history) \cup Keys(latest)
         /\ Len(merged) = Cardinality(Keys(merged))
         /\ \A ts \in Keys(merged) :
              PointAt(merged, ts) =
                IF ts \in Keys(latest) THEN PointAt(latest, ts)
                ELSE IF ts \in Keys(history) THEN PointAt(history, ts)
                ELSE PointAt(cached, ts)

\* a call merged a history and a latest response that hold different points
\* for one timestamp, and returned the latest response's
C5_Witness ==
  \E c \in Calls :
    /\ pc[c] = "done" /\ IsBreadth(c) /\ via[c] = "merge"
    /\ \E latest \in {LatestOf(c)}, history \in {HistoryOf(c)} :
       \E ts \in Keys(latest) \cap Keys(history) :
         /\ PointAt(history, ts) # PointAt(latest, ts)
         /\ PointAt(result[c].value.items, ts) = PointAt(latest, ts)

\* C6: a fetchVNIndexData call that finds an entry under its key whose age
\* is within VNINDEX_TTL returns the payload of the entry in the same step,
\* sends no request (direct or relay) and writes nothing to the store.
C6_FreshIndexEntryServed ==
  [][\A c \in Calls :
       Starts(c) /\ call'[c].fn = "fetchVNIndexData" =>
         LET entry == storage[VNCacheKey(call'[c].url)]
         IN entry.k = "entry" /\ now - entry.timestamp <= VNINDEX_TTL =>
              /\ pc'[c] = "done"
              /\ result'[c] = Resolved(entry.data)
              /\ reqs'[c] = <<>> /\ saves'[c] = 0
              /\ storage' = storage]_vars

\* a call returned an entry whose age was exactly the TTL, without a request
C6_Witness ==
  \E c \in Calls :
    /\ pc[c] = "done" /\ IsVN(c) /\ via[c] = "cache"
    /\ now - storage[loc[c].cacheKey].timestamp = VNINDEX_TTL
    /\ reqs[c] = <<>> /\ saves[c] = 0

\* C7: a fetchVNIndexData call whose fetch failed (both attempts), or whose
\* processing of the response raised (a falsy body, a parser exception),
\* returns the payload of the entry under its key if there is one, whatever
\* its age, and the empty array if there is none.
C7_StaleIndexEntryOnFailure ==
  [][\A c \in Calls :
       Completes(c) /\ IsVN(c)
         /\ (\/ fw'[c][1].st = "rejected"
             \/ ~Truthy(fw'[c][1].value)
             \/ parseVNIndexData(fw'[c][1].value).threw) =>
         LET entry == storage[VNCacheKey(call[c].url)]
         IN result'[c] = Resolved(IF entry.k = "entry" THEN entry.data ELSE JA(<<>>))]_vars

\* a call whose attempts both failed returned an entry older than the TTL
C7_Witness ==
  \E c \in Calls :
    /\ pc[c] = "done" /\ IsVN(c) /\ fw[c][1].st = "rejected"
    /\ storage[loc[c].cacheKey].k = "entry"
    /\ now - storage[loc[c].cacheKey].timestamp > VNINDEX_TTL
    /\ result[c] = Resolved(storage[loc[c].cacheKey].data)

\* C8: a fetchBreadthData call that finds a non-empty entry under its key
\* returns the series of the entry without a request when the age of the
\* entry is below BREADTH_MIN_FRESH, and sends requests when the age is
\* BREADTH_MIN_FRESH or more.
C8_BreadthFreshnessWindow ==
  [][\A c \in Calls :
       Starts(c) /\ call'[c].fn = "fetchBreadthData" =>
         LET key == BreadthCacheKey(call'[c].params)
             points == EntryPoints(storage, key)
         IN points # <<>> =>
              IF now - storage[key].timestamp < BREADTH_MIN_FRESH
              THEN pc'[c] = "done" /\ result'[c] = Resolved(JA(points)) /\ reqs'[c] = <<>>
              ELSE pc'[c] = "await" /\ reqs'[c] # <<>>]_vars

\* a call found an entry aged exactly BREADTH_MIN_FRESH and sent requests
C8_Witness ==
  \E c \in Calls :
    /\ pc[c] = "await" /\ IsBreadth(c)
    /\ loc[c].isCacheValid /\ loc[c].cacheAge = BREADTH_MIN_FRESH
    /\ reqs[c] # <<>>

\* the parameters agree on every filter field
SameFilter(p, q) ==
  /\ p.floor = q.floor /\ p.breadthUrl = q.breadthUrl
  /\ p.min_adClose = q.min_adClose /\ p.max_adClose = q.max_adClose
  /\ p.min_MA20 = q.min_MA20 /\ p.max_MA20 = q.max_MA20

\* C9: parameters that agree on floor, min/max adClose, min/max MA20 and
\* breadthUrl have one breadth cache key, whatever their t, fromDate,
\* toDate, vnIndexUrl and indexCode; the entry a call writes is the series
\* it returns (as JSON keeps it); and a call that starts within the
\* freshness window of an entry written by a call with the same filter
\* fields returns the series of that entry without a request.
C9_KeyIgnoresRange ==
  [][/\ \A p, q \in ParamSet : SameFilter(p, q) => BreadthCacheKey(p) = BreadthCacheKey(q)
     /\ \A c \in Calls, k \in CacheKeys :
          Completes(c) /\ IsBreadth(c) /\ storage'[k] # storage[k] =>
            /\ savedBy'[k] = call[c]
            /\ storage'[k].data = JsonRound(result'[c].value)
     /\ \A c \in Calls, k \in CacheKeys :
          /\ Starts(c) /\ call'[c].fn = "fetchBreadthData"
          /\ savedBy[k].fn = "fetchBreadthData"
          /\ SameFilter(savedBy[k].params, call'[c].params)
          /\ now - storage[k].timestamp < BREADTH_MIN_FRESH
          => /\ pc'[c] = "done"
             /\ result'[c] = Resolved(storage[k].data)
             /\ reqs'[c] = <<>>]_vars

\* a call returned, without a request, the entry that a call with another
\* t, date range and index had written
C9_Witness ==
  \E c \in Calls :
    /\ pc[c] = "done" /\ IsBreadth(c) /\ via[c] = "cache" /\ reqs[c] = <<>>
    /\ savedBy[loc[c].cacheKey].params.t # call[c].params.t
    /\ savedBy[loc[c].cacheKey].params.fromDate # call[c].params.fromDate
    /\ result[c] = Resolved(storage[loc[c].cacheKey].data)

\* C10: a fetchWithFallback call rejects iff its direct attempt and its
\* relay attempt both failed (a network error, a non-2xx status, a body that
\* is not JSON), and then with the relay attempt's error; when an attempt
\* succeeded it resolves to the JSON that attempt parsed.
C10_RejectsIffBothFail ==
  \A c \in Calls :
    pc[c] = "done" /\ call[c].fn = "fetchWithFallback" =>
      LET tried == attempts[c]
          bothFailed == Len(tried) = 2 /\ ~tried[1].ok /\ ~tried[2].ok
      IN /\ result[c].st = "rejected" <=> bothFailed
         /\ bothFailed => fw[c][1].error = [from |-> "proxy", kind |-> tried[2].kind]
         /\ ~bothFailed =>
              /\ tried[Len(tried)].ok
              /\ result[c] = Resolved(tried[Len(tried)].body)

\* a call whose direct attempt failed one way and whose relay attempt failed
\* another way has rejected
C10_Witness ==
  \E c \in Calls :
    /\ pc[c] = "done" /\ call[c].fn = "fetchWithFallback"
    /\ Len(attempts[c]) = 2
    /\ ~attempts[c][1].ok /\ ~attempts[c][2].ok
    /\ attempts[c][1].kind # attempts[c][2].kind
    /\ result[c].st = "rejected"

\* C11: a fetchWithFallback call sends at most two HTTP requests: first the
\* direct request to its URL with a cache-busting parameter appended ('&' if
\* the URL has a query, else '?'); then, once the direct attempt has failed
\* and never when it succeeded, one relay request that wraps that same
\* cache-busted URL; a relay failure is followed by no further request.
C11_AtMostTwoRequests ==
  \A c \in Calls :
    call[c].fn = "fetchWithFallback" =>
      /\ Len(reqs[c]) \in {1, 2} /\ Len(attempts[c]) <= Len(reqs[c])
      /\ reqs[c][1].via = "direct"
      /\ reqs[c][1].target.url = call[c].url
      /\ reqs[c][1].target.sep = (IF call[c].url.query = <<>> THEN "?" ELSE "&")
      /\ reqs[c][1].target.buster <= now
      /\ Len(reqs[c]) = 2 <=> (attempts[c] # <<>> /\ ~attempts[c][1].ok)
      /\ Len(reqs[c]) = 2 =>
           reqs[c][2].via = "proxy" /\ reqs[c][2].target = reqs[c][1].target
      /\ Len(attempts[c]) = Len(reqs[c]) /\ ~attempts[c][Len(attempts[c])].ok
           => Len(reqs[c]) = 2 /\ pc[c] = "done"

\* a call whose direct attempt failed after the clock had advanced, and whose
\* relay attempt failed too, has ended with two requests sent
C11_Witness ==
  \E c \in Calls :
    /\ pc[c] = "done" /\ call[c].fn = "fetchWithFallback"
    /\ Len(reqs[c]) = 2 /\ Len(attempts[c]) = 2
    /\ ~attempts[c][2].ok
    /\ reqs[c][2].target.buster < now

\* the TTLs the program passes to loadFromCache, and a shorter one
Ttls == {Null, Num(VNINDEX_TTL), Num(BREADTH_MIN_FRESH)}
\* the age of the entry under key k
AgeOf(k) == now - storage[k].timestamp

\* C12: for every key: with a numeric ttl, loadFromCache returns absent when
\* the age of the stored entry (now minus its timestamp) exceeds ttl, and
\* the payload of the entry with its age when the age is below ttl; with
\* ttl = null it returns a present entry whatever its age; with no entry it
\* returns absent.
C12_LoadHonoursTtl ==
  \A k \in CacheKeys, ttl \in Ttls :
    \E loaded \in {loadFromCache(storage, now, k, ttl)} :
      IF storage[k].k = "none" THEN ~loaded.hit
      ELSE /\ ttl.k = "num" /\ AgeOf(k) > ttl.n => ~loaded.hit
           /\ ttl.k = "null" \/ AgeOf(k) < ttl.n =>
                /\ loaded.hit
                /\ loaded.data = storage[k].data
                /\ loaded.age = AgeOf(k)

\* the store holds an entry older than VNINDEX_TTL: a read with the TTL does
\* not return it, a read with null does
C12_Witness ==
  \E k \in CacheKeys :
    /\ storage[k].k = "entry" /\ AgeOf(k) > VNINDEX_TTL
    /\ ~loadFromCache(storage, now, k, Num(VNINDEX_TTL)).hit
    /\ loadFromCache(storage, now, k, Null).hit

\* C13 as stated: loadFromCache(key, TTL) returns absent for an entry whose
\* age equals TTL.
C13_EqualAgeExpired ==
  \A k \in CacheKeys, ttl \in Ttls :
    storage[k].k = "entry" /\ ttl.k = "num" /\ AgeOf(k) = ttl.n
      => ~loadFromCache(storage, now, k, ttl).hit

\* C13, amended: an entry whose age equals TTL is fresh: loadFromCache(key,
\* TTL) returns its payload and its age; only an age above TTL is rejected.
C13_EqualAgeFresh ==
  \A k \in CacheKeys, ttl \in Ttls :
    storage[k].k = "entry" /\ ttl.k = "num" /\ AgeOf(k) = ttl.n
      => \E loaded \in {loadFromCache(storage, now, k, ttl)} :
           loaded.hit /\ loaded.data = storage[k].data /\ loaded.age = ttl.n

\* the store holds an entry written exactly VNINDEX_TTL ago, and no call is
\* running
C13_Witness ==
  \E k \in CacheKeys :
    /\ storage[k].k = "entry" /\ AgeOf(k) = VNINDEX_TTL
    /\ loadFromCache(storage, now, k, Num(VNINDEX_TTL)).hit
    /\ \A c \in Calls : pc[c] = "idle"

\* the <<name, value>> pairs of a parameter object
Pairs(params) == {params[i] : i \in DOMAIN params}

\* C14: getCacheKey(prefix, a) and getCacheKey(prefix, b) are the same key
\* when a and b hold the same name/value pairs, whatever the order they were
\* inserted in, and different keys when some name has one value in a and
\* another in b.
C14_KeyOfPairsNotOrder ==
  output.st = "returned" /\ input.fn = "getCacheKey" =>
    /\ Pairs(input.a) = Pairs(input.b) => output.val[1] = output.val[2]
    /\ (\E x \in Pairs(input.a), y \in Pairs(input.b) : x[1] = y[1] /\ x[2] # y[2])
         => output.val[1] # output.val[2]

\* two objects with the same pairs inserted in different orders got one key
C14_Witness ==
  /\ output.st = "returned" /\ input.fn = "getCacheKey"
  /\ Pairs(input.a) = Pairs(input.b) /\ input.a # input.b
  /\ output.val[1] = output.val[2]

\* parseVNIndexData has been applied to the input
Parsed == input.fn = "parseVNIndexData" /\ output.st # "none"
\* the payload inside its { data: [...] } wrappers
RECURSIVE Unwrap(_)
Unwrap(d) == IF d.k = "object" /\ IsArray(Get(d, "data")) THEN Unwrap(Get(d, "data")) ELSE d
\* the shapes of a payload
ArrayOfArrays(d) ==
  IsArray(d) /\ Len(d.items) > 0 /\ \A i \in DOMAIN d.items : IsArray(d.items[i])
ArrayOfObjects(d) ==
  IsArray(d) /\ Len(d.items) > 0 /\ \A i \in DOMAIN d.items : d.items[i].k = "object"
Columnar(d) == d.k = "object" /\ IsArray(Get(d, "t")) /\ IsArray(Get(d, "c"))
Supported(d) == ArrayOfArrays(Unwrap(d)) \/ ArrayOfObjects(Unwrap(d)) \/ Columnar(Unwrap(d))

\* C15 as stated: for a payload of a supported shape, parseVNIndexData
\* returns, and every point it returns has a number as its timestamp and a
\* number as its close (no NaN, no undefined, no string).
C15_PointsAreFinite ==
  Parsed /\ Supported(input.data) =>
    /\ output.st = "returned"
    /\ \A i \in DOMAIN output.val :
         /\ Prim(Get(output.val[i], "timestamp")).k = "num"
         /\ Prim(Get(output.val[i], "close")).k = "num"

\* C16 as stated: parseVNIndexData never throws, and returns the empty
\* sequence for every input of none of the supported shapes.
C16_NeverThrows ==
  Parsed =>
    /\ output.st = "returned"
    /\ ~Supported(input.data) => output.val = <<>>

\* the value under the first of the keys that the record has
HasAny(item, keys) == \E i \in DOMAIN keys : HasKey(item, keys[i])
FirstPresent(item, keys) ==
  Get(item, keys[CHOOSE i \in DOMAIN keys :
                   HasKey(item, keys[i]) /\ \A j \in 1..(i - 1) : ~HasKey(item, keys[j])])
\* the point of a record, its time and value taken from the first keys present
PointOfFirstPresent(item) ==
  With(Prim(FirstPresent(item, TimeKeys)), LAMBDA time :
    VNPoint(ScaleIfNumber(IF time.k = "str" THEN DateGetTime(time) ELSE time),
            ToNumberJ(FirstPresent(item, CloseKeys))))

\* C17 as stated: for an array of objects, parseVNIndexData returns, in
\* order, one point for every record that has a timestamp key and a value
\* key, built from the values under the first such keys present, whatever
\* those values are; records without a timestamp key or without a value key
\* are dropped.
C17_FirstPresentKeyWins ==
  Parsed /\ ArrayOfObjects(Unwrap(input.data)) =>
    /\ output.st = "returned"
    /\ \E kept \in {SelectSeq(Unwrap(input.data).items,
                              LAMBDA item : HasAny(item, TimeKeys) /\ HasAny(item, CloseKeys))} :
         /\ Len(output.val) = Len(kept)
         /\ \A i \in DOMAIN kept : output.val[i] = PointOfFirstPresent(kept[i])

\* ma = 100 * count / total when total > 0, and ma = 0 when total = 0, for
\* the fields of a point named maKey and countKey
PercentOfTotal(p, maKey, countKey) ==
  \E total \in {Prim(Get(p, "total"))}, count \in {Prim(Get(p, countKey))},
     ma \in {Prim(Get(p, maKey))} :
    /\ total.k = "num" /\ total.n > 0 =>
         count.k = "num" /\ ma = Num((100 * count.n) \div total.n)
    /\ total = Num(0) => ma = Num(0)

\* C18 as stated: every point of a series fetchBreadthData returned has
\* ma20, ma50 and ma200 equal to 100 * count / total of its count20, count50
\* and count200 when its total is above 0, and equal to 0 when its total is 0.
C18_PercentagesOfTotal ==
  \A c \in Calls :
    pc[c] = "done" /\ IsBreadth(c) /\ result[c].st = "resolved" =>
      \A i \in DOMAIN result[c].value.items :
        \E p \in {result[c].value.items[i]} :
          /\ PercentOfTotal(p, "ma20", "count20")
          /\ PercentOfTotal(p, "ma50", "count50")
          /\ PercentOfTotal(p, "ma200", "count200")

\* chartData has run on the input and returned
Charted == input.fn = "chartData" /\ output.st = "returned"
\* the calendar day of a point or record
DayOf(p) == IsoDate(TimestampOf(p))
\* the points of a series that fall on the day of record r
OnDayOf(r, series) == SelectSeq(series, LAMBDA p : DayOf(p) = DayOf(r))
\* the calendar days that occur in the four source series
SourceDays(src) ==
  {DayOf(p) : p \in UNION {{series[i] : i \in DOMAIN series} :
                             series \in {src.breadthData, src.vnIndexFixedData,
                                         src.capData, src.sectorData}}}

\* C19 as stated: chartData builds its sorted records, and before the filter
\* they hold exactly one record for every calendar day that occurs in any of
\* the four source series, no two of them on the same day, and computing
\* them again from the same sources gives the same sequence.
C19_OneRecordPerSourceDay ==
  input.fn = "chartData" /\ output.st # "none" =>
    /\ output.st = "returned"
    /\ {DayOf(output.sorted[i]) : i \in DOMAIN output.sorted} = SourceDays(input.src)
    /\ \A i, j \in DOMAIN output.sorted :
         i # j => /\ DayOf(output.sorted[i]) # DayOf(output.sorted[j])
                  /\ Get(output.sorted[i], "date") # Get(output.sorted[j], "date")
    /\ chartData(input.src, now).sorted = output.sorted

\* the field of record r is the close of the last point of the series on
\* r's day whose close is neither null nor undefined, and undefined when the
\* series has no such point
HoldsLastClose(r, series, field) ==
  \E closes \in {SelectSeq(OnDayOf(r, series),
                           LAMBDA v : Prim(Get(v, "close")).k \notin {"null", "undefined"})} :
    Get(r, field) = IF closes = <<>> THEN JUndef ELSE Get(closes[Len(closes)], "close")

\* C20: in every record chartData builds, vnIndex, capVal and sectorVal are
\* each the close of the last point of their own series on the record's day
\* whose close is neither null nor undefined (a close of 0 is stored as 0),
\* and undefined when that series has no such point; the record keeps every
\* field of the last breadth point of its day, whatever the index series
\* hold for that day.
C20_FieldsFromDefinedCloses ==
  Charted =>
    \A i \in DOMAIN output.sorted :
      \E r \in {output.sorted[i]} :
        /\ HoldsLastClose(r, input.src.vnIndexFixedData, "vnIndex")
        /\ HoldsLastClose(r, input.src.capData, "capVal")
        /\ HoldsLastClose(r, input.src.sectorData, "sectorVal")
        /\ \E bs \in {OnDayOf(r, input.src.breadthData)} :
             bs # <<>> =>
               \A f \in DOMAIN bs[Len(bs)].fields : Get(r, f) = bs[Len(bs)].fields[f]

\* a record keeps the close of its day although a later point of the same
\* series on that day has a null close and the cap series has no point for
\* the day, and another record stores a close of 0 next to its breadth fields
C20_Witness ==
  /\ Charted
  /\ input.src.vnIndexFixedData =
       <<VNPoint(Num(Day1), Num(1100)), VNPoint(Num(Day1 + 360), Null)>>
  /\ input.src.capData = <<VNPoint(Num(Day2), Num(0))>>
  /\ \E i, j \in DOMAIN output.sorted :
       /\ Get(output.sorted[i], "vnIndex") = JS(Num(1100))
       /\ Get(output.sorted[i], "capVal") = JUndef
       /\ Get(output.sorted[j], "capVal") = JS(Num(0))
       /\ Get(output.sorted[j], "ma20") = JS(Num(41))

\* a date of the filter is set
IsSet(date) == date.k = "str" /\ date.s # ""
\* the number of days a range keeps
DaysOfRange(range) ==
  CASE range = "1M" -> 30 [] range = "3M" -> 90 [] range = "6M" -> 180
    [] range = "1Y" -> 365 [] range = "3Y" -> 1095 [] range = "5Y" -> 1825
    [] range = "7Y" -> 2555

\* C21: chartData returns, in order, exactly the sorted records whose
\* timestamp t satisfies from <= t < to + 1 day when fromDate or toDate is
\* set (a bound that is not set does not restrict, the range is not
\* consulted), and otherwise exactly those with t >= now - N days, N the
\* number of days of the range.
C21_FilterKeepsWindow ==
  Charted =>
    output.val =
      SelectSeq(output.sorted, LAMBDA d :
        IF IsSet(input.src.fromDate) \/ IsSet(input.src.toDate)
        THEN /\ IsSet(input.src.fromDate) =>
                  TimestampOf(d).n >= DateStr[input.src.fromDate.s]
             /\ IsSet(input.src.toDate) =>
                  TimestampOf(d).n < DateStr[input.src.toDate.s] + DAY
        ELSE TimestampOf(d).n >= now - DaysOfRange(input.src.range) * DAY)

\* with both dates set to 2024-01-01 and the range at 1M, a record of
\* 2024-01-01 01:00 is kept and records of 2024-01-02 and of 40 days before
\* are dropped
C21_Witness ==
  /\ Charted
  /\ IsSet(input.src.fromDate) /\ IsSet(input.src.toDate)
  /\ \E i \in DOMAIN output.val : TimestampOf(output.val[i]) = Num(Day1 + 360)
  /\ \E i \in DOMAIN output.sorted : TimestampOf(output.sorted[i]).n >= Day2
  /\ \E i \in DOMAIN output.sorted : TimestampOf(output.sorted[i]).n < Day1
  /\ Len(output.val) = 1

\* the four series of the component, in the order of the fetches
SeriesOfUi(state) ==
  <<state.breadthData, state.vnIndexFixedData, state.capData, state.sectorData>>
InFlight(c) == c \in DOMAIN cycles /\ cycles[c].st = "flight"
\* cycle c ends in this step
Ends(c) == InFlight(c) /\ cycles'[c].st = "done"

\* C22: a cycle starts its four fetches together; the series of the
\* component change only in a step in which a cycle ends, all four of its
\* fetches having resolved before, and they become the four results of that
\* cycle, the fetched ones next to the empty ones of the fetches that
\* failed; a fetch that resolves, fetched or empty, leaves the other fetches
\* as they were.
C22_StoredAfterAllFour ==
  [][ /\ \A c \in DOMAIN cycles' \ DOMAIN cycles :
           \A i \in 1..4 : cycles'[c].fetches[i].st = "pending"
      /\ SeriesOfUi(ui') # SeriesOfUi(ui) => \E c \in DOMAIN cycles : Ends(c)
      /\ \A c \in DOMAIN cycles :
           Ends(c) =>
             /\ \A i \in 1..4 : cycles[c].fetches[i].st = "resolved"
             /\ SeriesOfUi(ui') = [i \in 1..4 |-> cycles[c].fetches[i].value]
      /\ \A c \in DOMAIN cycles, i \in 1..4 :
           InFlight(c) /\ cycles'[c].fetches[i] # cycles[c].fetches[i] =>
             \A d \in DOMAIN cycles, j \in 1..4 :
               <<d, j>> # <<c, i>> => cycles'[d].fetches[j] = cycles[d].fetches[j]
    ]_vars

\* a cycle has ended whose breadth and reference fetches failed and whose
\* cap and chart 4 fetches did not, and the component holds its four results
C22_Witness ==
  \E c \in DOMAIN cycles :
    /\ cycles[c].st = "done"
    /\ cycles[c].fetches[1].value = <<>> /\ cycles[c].fetches[2].value = <<>>
    /\ cycles[c].fetches[3].value # <<>> /\ cycles[c].fetches[4].value # <<>>
    /\ SeriesOfUi(ui) = [i \in 1..4 |-> cycles[c].fetches[i].value]
    /\ ui.error # Null

\* C23: a change of the dependencies leaves the cycles in flight as they
\* are, and a cycle that ends stores its four results whether or not its
\* dependencies are still the current ones and whether or not a cycle
\* started after it has already ended.
C23_StaleCycleOverwrites ==
  [][ /\ ui'.deps # ui.deps => cycles' = cycles
      /\ \A c \in DOMAIN cycles :
           Ends(c) /\ (cycles[c].deps # ui.deps
                       \/ \E d \in DOMAIN cycles : d > c /\ cycles[d].st = "done") =>
             SeriesOfUi(ui') = [i \in 1..4 |-> cycles[c].fetches[i].value]
    ]_vars

\* no cycle is in flight, no effect is due, the cycle started for the
\* current parameters has ended, and the breadth series the component holds
\* was fetched for other parameters
C23_Witness ==
  /\ \A c \in DOMAIN cycles : cycles[c].st = "done"
  /\ ~ui.effect
  /\ Len(cycles) = 2 /\ cycles[2].deps = ui.deps
  /\ ui.breadthData # <<>> /\ ui.breadthData[1].for # ui.deps.params
  /\ ui.breadthData = cycles[1].fetches[1].value

\* C30 as stated: loading is true whenever a cycle is in flight and false
\* whenever none is.
C30_LoadingIffInFlight ==
  ui.loading <=> \E c \in DOMAIN cycles : cycles[c].st = "flight"

\* C24: no fetcher writes an empty series to the cache.  Every step that
\* changes the entry of a key leaves an entry holding a non-empty array, and
\* a call that returns the empty array leaves the store as it was.
C24_NoEmptySeriesWritten ==
  [][ /\ \A k \in CacheKeys :
          storage'[k] # storage[k] => Len(EntryPoints(storage', k)) > 0
      /\ \A c \in Calls :
          Completes(c) /\ result'[c] = Resolved(JA(<<>>)) => storage' = storage ]_vars

\* a fetchVNIndexData call has fetched a body that parses to no point and
\* returned the empty array, while the store still holds, under its key, the
\* entry an earlier call wrote
C24_Witness ==
  \E c \in Calls :
    /\ pc[c] = "done" /\ IsVN(c) /\ via[c] = "fetch" /\ ReturnedEmpty(c)
    /\ saves[c] = 0
    /\ Len(EntryPoints(storage, loc[c].cacheKey)) > 0
    /\ storage[loc[c].cacheKey].timestamp < now

\* C25: a failed write to the store does not change what a fetcher returns.
\* A call that reaches saveToCache resolves, whether the write succeeds or
\* fails, to the series it has just fetched: for fetchVNIndexData the parsed
\* body, for fetchBreadthData the sorted merge; the promise is not rejected.
C25_FailedWriteSameResult ==
  [][ \A c \in Calls :
        Completes(c) /\ saves'[c] > 0 =>
          /\ result'[c].st = "resolved"
          /\ result'[c] = Resumed(c, fw'[c], TRUE).result
          /\ result'[c] = Resumed(c, fw'[c], FALSE).result
          /\ IsVN(c) => result'[c].value = JA(parseVNIndexData(fw'[c][1].value).val)
          /\ Len(result'[c].value.items) > 0 ]_vars

\* a fetchVNIndexData call has fetched and parsed a series and called
\* saveToCache, the write failed (there is no entry under its key), and the
\* call has returned the fetched series
C25_Witness ==
  \E c \in Calls :
    /\ pc[c] = "done" /\ IsVN(c) /\ via[c] = "fetch" /\ saves[c] = 1
    /\ storage[loc[c].cacheKey].k = "none"
    /\ result[c] = Resolved(JA(parseVNIndexData(fw[c][1].value).val))
    /\ Len(result[c].value.items) > 0

\* the stored value is one of the corrupt forms: a text that is not JSON,
\* or JSON that is not an object with a data property and a timestamp
\* property holding a number
CorruptItem(item) ==
  \/ item.k = "text"
  \/ /\ item.k = "json"
     /\ \/ item.payload.k # "object"
        \/ Prim(Get(item.payload, "data")).k = "undefined"
        \/ Prim(Get(item.payload, "timestamp")).k # "num"

\* C26 as stated: for a corrupt stored value loadFromCache returns absent
\* and does not throw, whatever the ttl.
C26_CorruptIsMiss ==
  output.st # "none" /\ input.fn = "loadFromCache" /\ CorruptItem(input.item)
    => output.st = "returned" /\ ~output.val.hit

\* two points fall on the same calendar day (their timestamps are instants
\* of one day)
SameDay(p, q) ==
  /\ TimestampOf(p).k = "num" /\ TimestampOf(q).k = "num"
  /\ TimestampOf(p).n \div DAY = TimestampOf(q).n \div DAY

\* C27 as stated: the series a fetchBreadthData call returns holds at most
\* one point per calendar day, and for a day of the latest response that
\* point is the latest response's.
C27_OnePointPerDay ==
  \A c \in Calls :
    pc[c] = "done" /\ IsBreadth(c) =>
      \E series \in {result[c].value.items} :
        /\ \A i, j \in DOMAIN series : i # j => ~SameDay(series[i], series[j])
        /\ via[c] = "merge" =>
             \E latest \in {LatestOf(c)} :
               \A n \in DOMAIN latest, i \in DOMAIN series :
                 SameDay(latest[n], series[i]) => series[i] = latest[n]

\* C28 as stated: when a fetchBreadthData call writes the entry of a key
\* for which another call has already returned, the timestamps the entry
\* held from that call's latest response are still in the entry after the
\* write.
C28_WriteKeepsOtherCallsPoints ==
  [][ \A c, b \in OverlappingCalls :
        /\ c # b /\ Completes(c) /\ pc[b] = "done"
        /\ loc[c].cacheKey = loc[b].cacheKey
        /\ storage'[loc[c].cacheKey] # storage[loc[c].cacheKey]
        => Keys(LatestOf(b)) \cap Keys(EntryPoints(storage, loc[c].cacheKey))
             \subseteq Keys(EntryPoints(storage', loc[c].cacheKey)) ]_vars

\* a fetchWithFallback call of a fetchBreadthData call gave no point: it was
\* not made, it failed, or its body maps to nothing
NoPoints(f) == f.st \in {"none", "rejected"} \/ Len(processRaw(RawOrEmpty(f)).val) = 0

\* C29 as stated: a fetchBreadthData call none of whose network queries
\* returned points leaves the store as it was: the entries and their
\* written-at times are unchanged.
C29_NoPointsNoRewrite ==
  [][ \A c \in Calls :
        Completes(c) /\ IsBreadth(c) /\ NoPoints(fw'[c][1]) /\ NoPoints(fw'[c][2])
        => storage' = storage ]_vars

====
